---- MODULE Spec2Model ----
(***************************************************************************)
(* Model of the network-device log analyzer: the masking normalizer, the   *)
(* diff engine, the session cache (SessionManager) and the request         *)
(* handlers of app.py that create, populate and look up sessions.          *)
(*                                                                         *)
(* Text is a sequence of one-character strings; a line keeps its "\n".     *)
(* A Python dict is a sequence of entries in insertion order.  An absent   *)
(* capture (None) is a DeviceLog record with present = FALSE.  A session   *)
(* id of 0 and the change number "None" stand for Python's None.           *)
(*                                                                         *)
(* Every handler of app.py that touches the session cache is an async def  *)
(* with no await in its body, so on the server's event loop a handler runs *)
(* to completion before the next one starts.  The steps of analyze_change  *)
(* are separate actions; no other handler is enabled between them.         *)
(***************************************************************************)
EXTENDS Integers, Sequences, FiniteSets, TLC

(***************************************************************************)
(* Bounds of the model.                                                    *)
(***************************************************************************)
\* sessions created by one run of the request model
MaxAnalyses == 2
\* wall-clock minutes the request model lets pass
MaxNow == 31
\* create_session calls of the capacity model beyond MAX_SESSIONS
MaxOver == 3
\* lines of a text handed to generate_command_diff
MaxLines == 2
\* commands of a capture handed to generate_device_diff
MaxCmds == 2

(***************************************************************************)
(* Characters and strings.                                                 *)
(***************************************************************************)
\* the characters of a capture, in ascending code-point order
Chars == <<"\t", "\n", " ", "!", "\"", "#", "$", "%", "&", "'", "(", ")",
           "*", "+", ",", "-", ".", "/", "0", "1", "2", "3", "4", "5", "6",
           "7", "8", "9", ":", ";", "<", "=", ">", "?", "@", "A", "B", "C",
           "D", "E", "F", "G", "H", "I", "J", "K", "L", "M", "N", "O", "P",
           "Q", "R", "S", "T", "U", "V", "W", "X", "Y", "Z", "[", "\\", "]",
           "^", "_", "a", "b", "c", "d", "e", "f", "g", "h", "i", "j",
           "k", "l", "m", "n", "o", "p", "q", "r", "s", "t", "u", "v", "w",
           "x", "y", "z", "{", "|", "}", "~">>

CharCode(c) == CHOOSE i \in 1..Len(Chars) : Chars[i] = c

UpperCase == <<"A", "B", "C", "D", "E", "F", "G", "H", "I", "J", "K", "L", "M", "N",
               "O", "P", "Q", "R", "S", "T", "U", "V", "W", "X", "Y", "Z">>

LowerCase == <<"a", "b", "c", "d", "e", "f", "g", "h", "i", "j", "k", "l", "m", "n",
               "o", "p", "q", "r", "s", "t", "u", "v", "w", "x", "y", "z">>

\* str.lower() on one character
LowerChar(c) ==
    IF \E k \in 1..Len(UpperCase) : UpperCase[k] = c
    THEN LowerCase[CHOOSE k \in 1..Len(UpperCase) : UpperCase[k] = c]
    ELSE c

\* str.lower()
Lower(s) == [i \in 1..Len(s) |-> LowerChar(s[i])]

\* s.startswith(p)
StartsWith(s, p) == Len(s) >= Len(p) /\ SubSeq(s, 1, Len(p)) = p

\* p in s (substring test)
Contains(s, p) == \E i \in 0..(Len(s) - Len(p)) : SubSeq(s, i + 1, i + Len(p)) = p

\* s < t in Python's string order (lexicographic by code point)
StrLess(s, t) ==
    \E k \in 1..(Len(t)) :
        /\ k - 1 <= Len(s)
        /\ SubSeq(s, 1, k - 1) = SubSeq(t, 1, k - 1)
        /\ \/ Len(s) = k - 1
           \/ Len(s) >= k /\ CharCode(s[k]) < CharCode(t[k])

\* sorted(S) for a set of strings
RECURSIVE Sorted(_)
Sorted(S) ==
    IF S = {} THEN <<>>
    ELSE LET m == CHOOSE x \in S : \A y \in S \ {x} : StrLess(x, y)
         IN  <<m>> \o Sorted(S \ {m})

\* str.splitlines(keepends=True): the only line terminator of the model is "\n"
RECURSIVE SplitLines(_)
SplitLines(text) ==
    IF text = <<>> THEN <<>>
    ELSE LET nl == {i \in 1..Len(text) : text[i] = "\n"}
         IN  IF nl = {} THEN <<text>>
             ELSE LET k == CHOOSE i \in nl : \A j \in nl : i <= j
                  IN  <<SubSeq(text, 1, k)>> \o SplitLines(SubSeq(text, k + 1, Len(text)))

\* sum(f[1..n])
RECURSIVE SeqSum(_, _)
SeqSum(f, n) == IF n = 0 THEN 0 ELSE f[n] + SeqSum(f, n - 1)

Min(a, b) == IF a <= b THEN a ELSE b

(***************************************************************************)
(* Masking normalizer (core/masker.py).  A rule's pattern is a literal     *)
(* string; a rule whose pattern does not compile has valid = FALSE.        *)
(***************************************************************************)
\* MaskingRule.apply: re.sub of a literal pattern, leftmost non-overlapping;
\* the empty pattern matches before every character and at the end
RECURSIVE RuleApply(_, _)
RuleApply(rule, text) ==
    IF rule.pattern = <<>>
    THEN rule.replacement
         \o (IF text = <<>> THEN <<>> ELSE <<Head(text)>> \o RuleApply(rule, Tail(text)))
    ELSE IF text = <<>> THEN <<>>
    ELSE IF StartsWith(text, rule.pattern)
         THEN rule.replacement \o RuleApply(rule, SubSeq(text, Len(rule.pattern) + 1, Len(text)))
         ELSE <<Head(text)>> \o RuleApply(rule, Tail(text))

\* DataMasker.__init__: compile every rule of every category, dropping the
\* rules that fail to compile; custom_rules is {} when masking is disabled
DataMasker(settings) ==
    [enabled |-> settings.enabled,
     rules   |-> IF settings.enabled
                 THEN [i \in 1..Len(settings.rules) |->
                          [category |-> settings.rules[i].category,
                           rules    |-> SelectSeq(settings.rules[i].rules,
                                                  LAMBDA r : r.valid)]]
                 ELSE <<>>]

\* the rules of the categories to apply, in application order
RECURSIVE RulesOf(_, _)
RulesOf(masker, categories) ==
    IF categories = <<>> THEN <<>>
    ELSE LET hit == SelectSeq(masker.rules, LAMBDA e : e.category = Head(categories))
         IN  (IF hit = <<>> THEN <<>> ELSE hit[1].rules) \o RulesOf(masker, Tail(categories))

\* variant: every rule is applied to the text as it was given, and the
\* result of the last one is returned
ApplyRulesToOriginal(rules, text) ==
    IF rules = <<>> THEN text ELSE RuleApply(rules[Len(rules)], text)

RECURSIVE ApplyRules(_, _)
ApplyRules(rules, text) ==
    IF rules = <<>> THEN text ELSE ApplyRules(Tail(rules), RuleApply(Head(rules), text))

\* DataMasker.mask_text; categories = <<"None">> stands for categories=None
mask_text(masker, text, categories) ==
    IF ~masker.enabled \/ text = <<>> THEN text
    ELSE LET cats == IF categories = <<"None">>
                     THEN [i \in 1..Len(masker.rules) |-> masker.rules[i].category]
                     ELSE categories
         IN  ApplyRules(RulesOf(masker, cats), text)

\* MASKING_PROFILES
MASKING_PROFILES ==
    [minimal  |-> <<"timestamps">>,
     standard |-> <<"timestamps", "session_ids", "uptime">>,
     strict   |-> <<"timestamps", "session_ids", "counters", "uptime">>,
     all      |-> <<"None">>]

(***************************************************************************)
(* Diff engine (core/differ.py).  difflib.SequenceMatcher is modelled by   *)
(* its matching blocks; below 200 lines it treats no line as junk.         *)
(***************************************************************************)
\* SequenceMatcher.find_longest_match on a[alo:ahi], b[blo:bhi] (0-based,
\* half-open): the longest common block, earliest in a, then earliest in b
find_longest_match(a, b, alo, ahi, blo, bhi) ==
    LET cand == {m \in (alo..(ahi - 1)) \X (blo..(bhi - 1)) \X (1..Min(ahi - alo, bhi - blo)) :
                    /\ m[1] + m[3] <= ahi
                    /\ m[2] + m[3] <= bhi
                    /\ \A d \in 0..(m[3] - 1) : a[m[1] + d + 1] = b[m[2] + d + 1]}
    IN  IF cand = {} THEN <<alo, blo, 0>>
        ELSE CHOOSE m \in cand : \A o \in cand :
                \/ m[3] > o[3]
                \/ m[3] = o[3] /\ m[1] < o[1]
                \/ m[3] = o[3] /\ m[1] = o[1] /\ m[2] <= o[2]

\* SequenceMatcher.get_matching_blocks: the set of blocks <<i, j, size>>
RECURSIVE get_matching_blocks(_, _, _, _, _, _)
get_matching_blocks(a, b, alo, ahi, blo, bhi) ==
    LET m == find_longest_match(a, b, alo, ahi, blo, bhi)
    IN  IF m[3] = 0 THEN {}
        ELSE {m}
             \cup (IF alo < m[1] /\ blo < m[2]
                   THEN get_matching_blocks(a, b, alo, m[1], blo, m[2]) ELSE {})
             \cup (IF m[1] + m[3] < ahi /\ m[2] + m[3] < bhi
                   THEN get_matching_blocks(a, b, m[1] + m[3], ahi, m[2] + m[3], bhi) ELSE {})

\* the 1-based positions of a (side 1) or b (side 2) inside a matching block
Matched(blocks, side) ==
    UNION {(m[side] + 1)..(m[side] + m[3]) : m \in blocks}

\* the lines of `lines` from position i on whose position is in keep, each
\* behind its tag
RECURSIVE Tagged(_, _, _, _)
Tagged(lines, keep, tag, i) ==
    IF i > Len(lines) THEN <<>>
    ELSE (IF i \in keep THEN <<tag \o lines[i]>> ELSE <<>>) \o Tagged(lines, keep, tag, i + 1)

\* difflib.unified_diff(a, b, lineterm=''): nothing when a = b, else the two
\* file headers and the lines with their one-character tag.  The hunk headers
\* ("@@ ..."), the order of the lines and the three-line limit on context
\* lines play no part in the counts and are left out
UnifiedLines(a, b, blocks) ==
    IF Matched(blocks, 1) = 1..Len(a) /\ Matched(blocks, 2) = 1..Len(b) THEN <<>>
    ELSE <<<<"-", "-", "-", " ">>, <<"+", "+", "+", " ">>>>
         \o Tagged(a, (1..Len(a)) \ Matched(blocks, 1), <<"-">>, 1)
         \o Tagged(b, (1..Len(b)) \ Matched(blocks, 2), <<"+">>, 1)
         \o Tagged(a, Matched(blocks, 1), <<" ">>, 1)

\* variant: a diff that pairs no line of a with a line of b
unified_diff_unpaired(a, b) == UnifiedLines(a, b, {})

unified_diff(a, b) == UnifiedLines(a, b, get_matching_blocks(a, b, 0, Len(a), 0, Len(b)))

\* the loop of generate_command_diff that counts added lines
CountAdded(diff) ==
    Len(SelectSeq(diff, LAMBDA line :
        StartsWith(line, <<"+">>) /\ ~StartsWith(line, <<"+", "+", "+">>)))

\* the loop of generate_command_diff that counts removed lines
CountRemoved(diff) ==
    Len(SelectSeq(diff, LAMBDA line :
        /\ ~(StartsWith(line, <<"+">>) /\ ~StartsWith(line, <<"+", "+", "+">>))
        /\ StartsWith(line, <<"-">>) /\ ~StartsWith(line, <<"-", "-", "-">>)))

\* the lines handed to difflib: an empty output becomes the one line ''
DiffLines(masked) ==
    IF SplitLines(masked) = <<>> THEN <<<<>>>> ELSE SplitLines(masked)

\* generate_command_diff, lines 105-119: the CommandDiff returned; diff_html
\* is the pair of line lists HtmlDiff.make_table(context=False) lays out
CommandDiff(command, masked_pre, masked_post, pre_lines, post_lines, added, removed) ==
    [command       |-> command,
     has_changes   |-> added > 0 \/ removed > 0,
     pre_output    |-> masked_pre,
     post_output   |-> masked_post,
     diff_html     |-> <<pre_lines, post_lines>>,
     added_lines   |-> added,
     removed_lines |-> removed,
     changed_lines |-> Min(added, removed)]

\* generate_command_diff, lines 97-103: count the lines of the unified diff
CountChanges(command, masked_pre, masked_post, pre_lines, post_lines, diff) ==
    CommandDiff(command, masked_pre, masked_post, pre_lines, post_lines,
                CountAdded(diff), CountRemoved(diff))

\* generate_command_diff, lines 76-95: split the masked texts and diff them
DiffMasked(command, masked_pre, masked_post) ==
    CountChanges(command, masked_pre, masked_post,
                 DiffLines(masked_pre), DiffLines(masked_post),
                 unified_diff(DiffLines(masked_pre), DiffLines(masked_post)))

\* DiffGenerator.generate_command_diff
generate_command_diff(masker, categories, command, pre_output, post_output) ==
    DiffMasked(command, mask_text(masker, pre_output, categories),
               mask_text(masker, post_output, categories))

\* {cmd.command: cmd for cmd in log.commands}: the names, and the output of a
\* name's last occurrence
CommandNames(log) == {log.commands[i].command : i \in 1..Len(log.commands)}

\* variant: the first occurrence of a repeated name wins
CommandOutputOfFirst(log, name) ==
    LET hits == {i \in 1..Len(log.commands) : log.commands[i].command = name}
    IN  log.commands[CHOOSE i \in hits : \A j \in hits : i <= j].output

CommandOutputOf(log, name) ==
    LET hits == {i \in 1..Len(log.commands) : log.commands[i].command = name}
    IN  log.commands[CHOOSE i \in hits : \A j \in hits : j <= i].output

\* generate_device_diff, lines 141-166: the totals over the command diffs
\* that have changes, and the DeviceDiff returned
DeviceDiff(pre_log, command_diffs, changed) ==
    [hostname              |-> pre_log.hostname,
     change_number         |-> pre_log.change_number,
     command_diffs         |-> command_diffs,
     total_commands        |-> Len(command_diffs),
     commands_with_changes |-> Len(changed),
     total_added   |-> SeqSum([i \in 1..Len(changed) |-> changed[i].added_lines], Len(changed)),
     total_removed |-> SeqSum([i \in 1..Len(changed) |-> changed[i].removed_lines], Len(changed)),
     total_changed |-> SeqSum([i \in 1..Len(changed) |-> changed[i].changed_lines], Len(changed))]

\* variant: the totals are taken over every command diff
AggregateAll(pre_log, command_diffs) == DeviceDiff(pre_log, command_diffs, command_diffs)

Aggregate(pre_log, command_diffs) ==
    DeviceDiff(pre_log, command_diffs, SelectSeq(command_diffs, LAMBDA d : d.has_changes))

\* generate_device_diff, lines 144-149: one command diff for each name, a
\* command missing from a capture being diffed against ""
DiffCommands(masker, categories, pre_log, post_log, all_commands) ==
    Aggregate(pre_log,
        [k \in 1..Len(all_commands) |->
            generate_command_diff(masker, categories, all_commands[k],
                IF all_commands[k] \in CommandNames(pre_log)
                THEN CommandOutputOf(pre_log, all_commands[k]) ELSE <<>>,
                IF all_commands[k] \in CommandNames(post_log)
                THEN CommandOutputOf(post_log, all_commands[k]) ELSE <<>>)])

\* DiffGenerator.generate_device_diff
generate_device_diff(masker, categories, pre_log, post_log) ==
    DiffCommands(masker, categories, pre_log, post_log,
                 Sorted(CommandNames(pre_log) \cup CommandNames(post_log)))

\* DiffGenerator.generate_html_report, lines 183-188: the filter that rebinds
\* each DeviceDiff's command_diffs in place
generate_html_report(device_diffs, include_unchanged) ==
    IF include_unchanged THEN device_diffs
    ELSE [i \in 1..Len(device_diffs) |->
            [device_diffs[i] EXCEPT !.command_diffs =
                SelectSeq(device_diffs[i].command_diffs, LAMBDA d : d.has_changes)]]

(***************************************************************************)
(* Session payload (core/memory_storage.py).                               *)
(***************************************************************************)
\* d[key] = value on a dict kept as a sequence of entries with field hostname
DictSet(d, entry) ==
    IF \E i \in 1..Len(d) : d[i].hostname = entry.hostname
    THEN [i \in 1..Len(d) |-> IF d[i].hostname = entry.hostname THEN entry ELSE d[i]]
    ELSE Append(d, entry)

\* AnalysisSession(session_id, change_number, created_at)
AnalysisSession(session_id, change_number, created_at) ==
    [session_id    |-> session_id,
     change_number |-> change_number,
     created_at    |-> created_at,
     devices       |-> <<>>,
     commands      |-> <<>>,
     device_diffs  |-> <<>>,
     device_logs   |-> <<>>]

\* the error test of populate_session on one command diff
HasErrorText(cmd_diff) ==
    /\ cmd_diff.post_output # <<>>
    /\ \E err \in {<<"e", "r", "r", "o", "r", ":">>, <<"f", "a", "i", "l", "e", "d">>,
                   <<"f", "a", "i", "l", "u", "r", "e">>, <<"%", "e", "r", "r", "o", "r">>} :
           Contains(Lower(cmd_diff.post_output), err)

IsInterfaceCommand(cmd_lower) ==
    \/ Contains(cmd_lower, <<"i", "n", "t", "e", "r", "f", "a", "c", "e">>)
    \/ Contains(cmd_lower, <<"i", "p", " ", "i", "n", "t">>)

\* one iteration of populate_session's loop over device_diffs (lines 245-301)
PopulateDevice(session, device_diff) ==
    LET cds == device_diff.command_diffs
        changedIf(P(_)) == \E k \in 1..Len(cds) : P(Lower(cds[k].command)) /\ cds[k].has_changes
        isIntf(c) == IsInterfaceCommand(c)
        isBgp(c)  == ~IsInterfaceCommand(c) /\ Contains(c, <<"b", "g", "p">>)
        isOspf(c) == /\ ~IsInterfaceCommand(c) /\ ~Contains(c, <<"b", "g", "p">>)
                     /\ Contains(c, <<"o", "s", "p", "f">>)
        commands_with_errors == Len(SelectSeq(cds, HasErrorText))
        command_summaries ==
            [k \in 1..Len(cds) |->
                [command       |-> cds[k].command,
                 has_changes   |-> cds[k].has_changes,
                 added_lines   |-> cds[k].added_lines,
                 removed_lines |-> cds[k].removed_lines,
                 diff_html     |-> cds[k].diff_html]]
        status == IF device_diff.commands_with_changes > 0 THEN "changed"
                  ELSE IF commands_with_errors > 0 THEN "errors" ELSE "unchanged"
    IN  [session EXCEPT
            !.devices = DictSet(@,
                [hostname              |-> device_diff.hostname,
                 total_commands        |-> device_diff.total_commands,
                 commands_with_changes |-> device_diff.commands_with_changes,
                 commands_with_errors  |-> commands_with_errors,
                 has_interface_changes |-> changedIf(isIntf),
                 has_bgp_changes       |-> changedIf(isBgp),
                 has_ospf_changes      |-> changedIf(isOspf),
                 status                |-> status]),
            !.commands = DictSet(@,
                [hostname |-> device_diff.hostname, commands |-> command_summaries])]

\* populate_session, lines 241-242
PopulateBegin(session, device_logs, device_diffs) ==
    [session EXCEPT !.device_logs = device_logs, !.device_diffs = device_diffs]

\* AnalysisSession.get_statistics (the two figures analyze_change reports)
get_statistics(session) ==
    [total_devices   |-> Len(session.devices),
     changed_devices |-> Len(SelectSeq(session.devices,
                                       LAMBDA d : d.commands_with_changes > 0))]

(***************************************************************************)
(* Session cache (SessionManager).  The OrderedDict _sessions is the       *)
(* sequence of its keys, oldest entry first; heap holds the session        *)
(* objects by id.  Every method runs under the manager's lock.             *)
(***************************************************************************)
MAX_SESSIONS == 100
SESSION_TTL_MINUTES == 30

InStore(store, id) == \E i \in 1..Len(store) : store[i] = id

Remove(store, id) == SelectSeq(store, LAMBDA x : x # id)

\* variant: a session is dropped on reaching the limit, not on passing it
IsExpiredAtLimit(session, t) == t - session.created_at >= SESSION_TTL_MINUTES

\* the test of _cleanup_old_sessions on one session's age
IsExpired(session, t) == t - session.created_at > SESSION_TTL_MINUTES

\* _cleanup_old_sessions, lines 204-212: drop the expired sessions
RemoveExpired(store, objs, t) ==
    SelectSeq(store, LAMBDA id : ~IsExpired(objs[id], t))

\* _cleanup_old_sessions, lines 214-216: popitem(last=False) while over the limit
RECURSIVE RemoveExcess(_)
RemoveExcess(store) ==
    IF Len(store) > MAX_SESSIONS THEN RemoveExcess(Tail(store)) ELSE store

\* SessionManager._cleanup_old_sessions
cleanup_old_sessions(store, objs, t) == RemoveExcess(RemoveExpired(store, objs, t))

\* SessionManager.create_session: the store after the cleanup and the insert
create_session(store, objs, t, session_id) ==
    Append(cleanup_old_sessions(store, objs, t), session_id)

\* variant: a lookup that takes the entry out of the index
pop_entry(store, session_id) == SelectSeq(store, LAMBDA x : x # session_id)

\* OrderedDict.move_to_end(session_id)
move_to_end(store, session_id) == Append(Remove(store, session_id), session_id)

\* variant: a lookup that does not call move_to_end
get_session_in_place(store, session_id) == store

\* SessionManager.get_session: the store after the call (0 is not a key)
get_session(store, session_id) ==
    IF InStore(store, session_id) THEN move_to_end(store, session_id) ELSE store

\* SessionManager.get_session_by_change: the id returned, 0 for None
get_session_by_change(store, objs, change_number) ==
    LET hits == {i \in 1..Len(store) : objs[store[i]].change_number = change_number}
    IN  IF hits = {} THEN 0
        ELSE store[CHOOSE i \in hits : \A j \in hits : j <= i]

\* variant: a removal that pops the oldest entry when the key is unknown
remove_or_pop(store, session_id) ==
    IF InStore(store, session_id) THEN Remove(store, session_id)
    ELSE IF store = <<>> THEN store ELSE Tail(store)

\* SessionManager.remove_session and delete_session: the store after the call
remove_session(store, session_id) ==
    IF InStore(store, session_id) THEN Remove(store, session_id) ELSE store

\* SessionManager.list_sessions
list_sessions(store, objs) ==
    [i \in 1..Len(store) |->
        [session_id    |-> objs[store[i]].session_id,
         change_number |-> objs[store[i]].change_number,
         created_at    |-> objs[store[i]].created_at,
         device_count  |-> Len(objs[store[i]].devices)]]

(***************************************************************************)
(* Inputs of the request model.                                            *)
(***************************************************************************)
CmdVer   == <<"v", "e", "r">>
CmdBgp   == <<"B", "g", "p">>
CmdIpInt == <<"i", "p", " ", "i", "n", "t">>

TextA      == <<"a", "\n">>
TextAB     == <<"a", "\n", "b", "\n">>
TextT1     == <<"a", "1", "\n">>
TextT2     == <<"a", "2", "\n">>
TextFailed == <<"f", "a", "i", "l", "e", "d", "\n">>

\* a parsed capture, and the capture that is absent (None)
DeviceLog(hostname, change_number, commands) ==
    [present |-> TRUE, hostname |-> hostname, change_number |-> change_number,
     commands |-> commands]

NoLog == [present |-> FALSE, hostname |-> "", change_number |-> "", commands |-> <<>>]

Cmd(command, output) == [command |-> command, output |-> output]

\* the change directories a request may name: the directory's name and what
\* parse_change_directory returns for it (hostname -> (pre_log, post_log))
Directories ==
    {[name |-> "CHG1", device_logs |-> <<
        [hostname |-> "R1",
         pre  |-> DeviceLog("R1", "CHG1", <<Cmd(CmdVer, TextT1), Cmd(CmdIpInt, TextAB)>>),
         post |-> DeviceLog("R1", "CHG1", <<Cmd(CmdVer, TextT2), Cmd(CmdIpInt, TextA),
                                            Cmd(CmdBgp, TextFailed)>>)]>>],
     [name |-> "CHG2", device_logs |-> <<
        [hostname |-> "R1",
         pre  |-> DeviceLog("R1", "CHG2", <<Cmd(CmdVer, TextA)>>),
         post |-> DeviceLog("R1", "CHG2", <<Cmd(CmdVer, TextA)>>)],
        [hostname |-> "R2",
         pre  |-> NoLog,
         post |-> DeviceLog("R2", "CHG2", <<Cmd(CmdVer, TextAB)>>)]>>],
     [name |-> "CHG3", device_logs |-> <<
        [hostname |-> "R2",
         pre  |-> DeviceLog("R2", "CHG3", <<Cmd(CmdVer, TextA)>>),
         post |-> NoLog]>>],
     [name |-> "CHG4", device_logs |-> <<>>]}

Changes == {d.name : d \in Directories}

\* settings.masking as config.yaml may give it
MaskingConfigs ==
    {[enabled |-> FALSE, rules |-> <<>>],
     [enabled |-> TRUE, rules |-> <<
        [category |-> "timestamps", rules |-> <<
            [pattern |-> <<"1">>, replacement |-> <<"T">>, valid |-> TRUE],
            [pattern |-> <<"(">>, replacement |-> <<>>, valid |-> FALSE],
            [pattern |-> <<"2">>, replacement |-> <<"T">>, valid |-> TRUE]>>],
        [category |-> "counters", rules |-> <<
            [pattern |-> <<"b">>, replacement |-> <<"N">>, valid |-> TRUE]>>]>>]}

\* the masking_profile values a request may carry
Profiles == {"standard"}

\* the minutes the clock may advance by between two steps: up to the TTL, and
\* one minute past it
TickSteps == {30, 31}

(***************************************************************************)
(* State.                                                                  *)
(***************************************************************************)
VARIABLES
    settings,   \* settings.masking, loaded once
    sessions,   \* SessionManager._sessions: the keys, oldest entry first
    heap,       \* the AnalysisSession objects, by session id
    now,        \* datetime.now(), in minutes
    next_id,    \* the next uuid4 (ids are never reused)
    run,        \* the handler the event loop is running: position and locals
    ret,        \* the last value returned to a caller
    recency     \* history: the stored ids ordered by their last access
                \* (insertion or successful get_session), oldest first

vars == <<settings, sessions, heap, now, next_id, run, ret, recency>>

Idle == [pc |-> "idle", sid |-> 0, dir |-> "", profile |-> "",
         include_unchanged |-> FALSE, i |-> 0]

NoRet == [op |-> "none", arg |-> 0, change |-> "None", result |-> 0, status |-> 0,
          listing |-> <<>>]

Response(op, arg, change, result, status) ==
    [op |-> op, arg |-> arg, change |-> change, result |-> result, status |-> status,
     listing |-> <<>>]

\* the objects still referenced: by the store or by the running handler
Live(store, handler) == {store[i] : i \in 1..Len(store)} \cup {handler.sid}

Collect(objs, store, handler) ==
    [id \in (DOMAIN objs) \cap Live(store, handler) |-> objs[id]]

Init ==
    /\ settings \in MaskingConfigs
    /\ sessions = <<>>
    /\ heap = <<>>
    /\ now = 0
    /\ next_id = 1
    /\ run = Idle
    /\ ret = NoRet
    /\ recency = <<>>

(***************************************************************************)
(* analyze_change (app.py).                                                *)
(***************************************************************************)
\* variant: the handlers are plain def, each run on a thread of the pool, so
\* one may start while another is between two of its steps
ThreadPool(handler) == TRUE

\* a handler may start when the event loop runs no other handler
\* (async def: the handler is not handed to the thread pool)
LoopFree(handler) == handler.pc = "idle"

DirectoryOf(name) == CHOOSE d \in Directories : d.name = name

\* analyze_change, lines 392-405: the DeviceDiff list of the request, one
\* entry for each device whose pre and post capture are both present
DeviceDiffsOf(masking, device_logs, profile) ==
    LET both == SelectSeq(device_logs, LAMBDA e : e.pre.present /\ e.post.present)
    IN  [k \in 1..Len(both) |->
            generate_device_diff(DataMasker(masking), MASKING_PROFILES[profile],
                                 both[k].pre, both[k].post)]

\* the session ids a caller may name: those handed out, and one never handed out
KnownIds == 1..next_id

\* history: the ids of old that are still stored, in their order
Kept(old, store) == SelectSeq(old, LAMBDA id : InStore(store, id))

\* history: a successful access moves the entry behind all others
Touched(old, id) == Append(SelectSeq(old, LAMBDA x : x # id), id)

\* lines 377-410: parse, diff and create_session.  An empty directory raises
\* inside the try block and is answered 500.
AnalyzeStart(d, profile, include_unchanged) ==
    /\ LoopFree(run)
    /\ next_id <= MaxAnalyses
    /\ IF d.device_logs = <<>>
       THEN /\ ret' = Response("analyze_change", 0, d.name, 0, 500)
            /\ UNCHANGED <<settings, sessions, heap, now, next_id, run, recency>>
       ELSE /\ sessions' = create_session(sessions, heap, now, next_id)
            /\ run' = [Idle EXCEPT !.pc = "populate", !.sid = next_id, !.dir = d.name,
                                   !.profile = profile,
                                   !.include_unchanged = include_unchanged]
            /\ heap' = Collect((next_id :> AnalysisSession(next_id, d.name, now)) @@ heap,
                               sessions', run')
            /\ recency' = Append(Kept(recency, sessions'), next_id)
            /\ next_id' = next_id + 1
            /\ UNCHANGED <<settings, now, ret>>

\* populate_session, lines 241-242, and the loop's exit when there is no diff
Populate(device_logs, device_diffs) ==
    /\ heap' = [heap EXCEPT ![run.sid] = PopulateBegin(@, device_logs, device_diffs)]
    /\ run' = [run EXCEPT !.pc = IF device_diffs = <<>> THEN "report" ELSE "populate_loop",
                          !.i = 1]

\* line 411: populate_session is handed the request's captures and diffs
PopulateStart ==
    /\ run.pc = "populate"
    /\ Populate(DirectoryOf(run.dir).device_logs,
                DeviceDiffsOf(settings, DirectoryOf(run.dir).device_logs, run.profile))
    /\ UNCHANGED <<settings, sessions, now, next_id, ret, recency>>

\* populate_session, lines 244-301: one iteration of the loop
PopulateNext ==
    /\ run.pc = "populate_loop"
    /\ LET session == heap[run.sid]
       IN  /\ heap' = [heap EXCEPT ![run.sid] =
                          PopulateDevice(session, session.device_diffs[run.i])]
           /\ run' = [run EXCEPT !.pc = IF run.i = Len(session.device_diffs)
                                        THEN "report" ELSE "populate_loop",
                                 !.i = run.i + 1]
    /\ UNCHANGED <<settings, sessions, now, next_id, ret, recency>>

\* lines 413-431: the paginated report reads the diffs; the legacy report
\* filters them in place, and its template raises on an empty list (500)
GenerateReports ==
    /\ run.pc = "report"
    /\ LET session == heap[run.sid]
       IN  IF session.device_diffs = <<>>
           THEN /\ ret' = Response("analyze_change", 0, run.dir, run.sid, 500)
                /\ run' = Idle
                /\ heap' = Collect(heap, sessions, run')
           ELSE /\ heap' = [heap EXCEPT ![run.sid].device_diffs =
                               generate_html_report(@, run.include_unchanged)]
                /\ run' = [run EXCEPT !.pc = "respond"]
                /\ ret' = ret
    /\ UNCHANGED <<settings, sessions, now, next_id, recency>>

\* lines 433-446: the response
Respond ==
    /\ run.pc = "respond"
    /\ ret' = [Response("analyze_change", 0, run.dir, run.sid, 200)
                  EXCEPT !.listing = <<get_statistics(heap[run.sid])>>]
    /\ run' = Idle
    /\ heap' = Collect(heap, sessions, run')
    /\ UNCHANGED <<settings, sessions, now, next_id, recency>>

(***************************************************************************)
(* The other handlers and the calls they make on the session manager.      *)
(***************************************************************************)
\* get_session_from_request, as the post-analysis GET endpoints call it
\* (0 and "None" for a parameter that is not given): get_session, or else
\* get_session_by_change; 400 is "No active session"
Request(session_id, change_number) ==
    LET found == IF session_id # 0
                 THEN (IF InStore(sessions, session_id) THEN session_id ELSE 0)
                 ELSE IF change_number # "None"
                      THEN get_session_by_change(sessions, heap, change_number)
                      ELSE 0
    IN  /\ LoopFree(run)
        /\ sessions' = IF session_id # 0 THEN get_session(sessions, session_id) ELSE sessions
        /\ recency' = IF session_id # 0 /\ found # 0 THEN Touched(recency, session_id)
                      ELSE recency
        /\ ret' = Response(IF session_id # 0 THEN "get_session"
                           ELSE IF change_number # "None" THEN "get_session_by_change"
                           ELSE "no_session", session_id, change_number, found,
                           IF found = 0 THEN 400 ELSE 200)
        /\ UNCHANGED <<settings, heap, now, next_id, run>>

\* DELETE /api/sessions/{session_id}: SessionManager.remove_session
RemoveSession(session_id) ==
    /\ LoopFree(run)
    /\ sessions' = remove_session(sessions, session_id)
    /\ ret' = Response("remove_session", session_id, "None", 0,
                       IF InStore(sessions, session_id) THEN 200 ELSE 404)
    /\ heap' = Collect(heap, sessions', run)
    /\ recency' = Kept(recency, sessions')
    /\ UNCHANGED <<settings, now, next_id, run>>

\* GET /api/sessions: SessionManager.list_sessions
ListSessions ==
    /\ LoopFree(run)
    /\ ret' = [Response("list_sessions", 0, "None", 0, 200)
                  EXCEPT !.listing = list_sessions(sessions, heap)]
    /\ UNCHANGED <<settings, sessions, heap, now, next_id, run, recency>>

\* chat_query: get_session on the id given; failing that, list_sessions and
\* get_session on the last id listed; 400 when that fails too
ChatQuery(session_id) ==
    LET first  == IF session_id # 0 /\ InStore(sessions, session_id) THEN session_id ELSE 0
        listed == list_sessions(sessions, heap)
        answer == IF first # 0 THEN first
                  ELSE IF listed # <<>> THEN listed[Len(listed)].session_id ELSE 0
    IN  /\ LoopFree(run)
        /\ sessions' = get_session(get_session(sessions, session_id), answer)
        /\ recency' = IF answer # 0 THEN Touched(recency, answer) ELSE recency
        /\ ret' = Response("chat_query", session_id, "None", answer,
                           IF answer = 0 THEN 400 ELSE 200)
        /\ UNCHANGED <<settings, heap, now, next_id, run>>

\* the wall clock advances
Tick(d) ==
    /\ now + d <= MaxNow
    /\ now' = now + d
    /\ UNCHANGED <<settings, sessions, heap, next_id, run, ret, recency>>

Next ==
    \/ \E d \in Directories, p \in Profiles, inc \in BOOLEAN : AnalyzeStart(d, p, inc)
    \/ PopulateStart
    \/ PopulateNext
    \/ GenerateReports
    \/ Respond
    \/ \E id \in KnownIds : Request(id, "None")
    \/ \E c \in Changes \cup {"None"} : Request(0, c)
    \/ \E id \in KnownIds : RemoveSession(id)
    \/ ListSessions
    \/ \E id \in KnownIds \cup {0} : ChatQuery(id)
    \/ \E d \in TickSteps : Tick(d)

Spec == Init /\ [][Next]_vars

(***************************************************************************)
(* The capacity model: the session manager alone, called as analyze_change *)
(* and the lookups call it, until it holds more than MAX_SESSIONS entries. *)
(* No time passes, so no session expires.                                  *)
(***************************************************************************)
\* the session ids the capacity model looks up
ProbeIds == {1}

InitCap ==
    /\ settings = [enabled |-> FALSE, rules |-> <<>>]
    /\ sessions = <<>>
    /\ heap = <<>>
    /\ now = 0
    /\ next_id = 1
    /\ run = Idle
    /\ ret = NoRet
    /\ recency = <<>>

\* SessionManager.create_session(change_number)
CreateSession(change_number) ==
    /\ next_id <= MAX_SESSIONS + MaxOver
    /\ sessions' = create_session(sessions, heap, now, next_id)
    /\ heap' = Collect((next_id :> AnalysisSession(next_id, change_number, now)) @@ heap,
                       sessions', run)
    /\ recency' = Append(Kept(recency, sessions'), next_id)
    /\ next_id' = next_id + 1
    /\ ret' = Response("create_session", 0, change_number, next_id, 200)
    /\ UNCHANGED <<settings, now, run>>

NextCap ==
    \/ CreateSession("CHG1")
    \/ \E id \in ProbeIds : Request(id, "None")

SpecCap == InitCap /\ [][NextCap]_vars

(***************************************************************************)
(* Properties.                                                             *)
(***************************************************************************)
Stored(store) == {store[i] : i \in 1..Len(store)}

\* the position of x in seq
Pos(seq, x) == CHOOSE i \in 1..Len(seq) : seq[i] = x

\* the entries were last accessed in the order of their creation: no lookup
\* has moved an entry behind a younger one
InCreationOrder(order) ==
    \A i, j \in 1..Len(order) : i < j => order[i] < order[j]

\* C1: starting from an empty manager, after 101 successive create_session
\* calls (none older than the TTL) the manager holds exactly 100 sessions and
\* the first-created session is the one evicted.
C1_CapacityAfter101 ==
    (/\ ret.op = "create_session"
     /\ next_id = MAX_SESSIONS + 2
     /\ InCreationOrder(recency))
    => /\ Len(sessions) = MAX_SESSIONS
       /\ ~InStore(sessions, 1)

\* the session the running analyze_change has created and not yet populated
Populating(id) == run.sid = id /\ run.pc \in {"populate", "populate_loop"}

\* the sessions a returned value hands out or describes
Described(r) ==
    (IF r.result # 0 THEN {r.result} ELSE {})
    \cup {r.listing[k].session_id : k \in 1..Len(r.listing)}

ReaderOps == {"get_session", "get_session_by_change", "list_sessions", "chat_query"}

C3_PopulatedIsFrozen ==
    [][\A id \in (DOMAIN heap) \cap (DOMAIN heap') :
          ~Populating(id) =>
              /\ heap'[id].device_logs = heap[id].device_logs
              /\ heap'[id].device_diffs = heap[id].device_diffs
              /\ heap'[id].commands = heap[id].commands]_vars

\* C4: a create_session call removes every session created more than 30
\* minutes ago from get_session and list_sessions, however recently it was
\* looked up, and its TTL step removes no session aged 30 minutes or less.
C4_Ttl ==
    [][next_id' = next_id + 1 =>
          \A id \in Stored(sessions) :
              IF now - heap[id].created_at > SESSION_TTL_MINUTES
              THEN /\ ~InStore(sessions', id)
                   /\ \A k \in 1..Len(list_sessions(sessions', heap')) :
                         list_sessions(sessions', heap')[k].session_id # id
              ELSE InStore(sessions', id)]_vars

\* C4 witness: session 1 was handed out by get_session, and the create_session
\* of the next analysis has removed it
C4_Witness ==
    /\ run.pc = "populate"
    /\ run.sid = 2
    /\ ret.op = "get_session"
    /\ ret.result = 1
    /\ ~InStore(sessions, 1)

\* the stored session created last among those of a change number, 0 for none
\* (ids are handed out in creation order)
NewestOfChange(store, objs, change_number) ==
    LET hits == {id \in Stored(store) : objs[id].change_number = change_number}
    IN  IF hits = {} THEN 0 ELSE CHOOSE id \in hits : \A o \in hits : o <= id

\* C5: get_session_by_change(c) returns the most recently created stored
\* session of change number c, after any sequence of calls, and None when
\* there is none.
C5_NewestByChange ==
    [][(ret' # ret /\ ret'.op = "get_session_by_change") =>
          ret'.result = NewestOfChange(sessions, heap, ret'.change)]_vars

\* C6: a successful get_session(id) makes the entry the most recently used
\* one and leaves its created_at alone; capacity eviction removes the entry
\* whose last access is oldest, never an entry accessed more recently than
\* an entry that is kept.
C6_LruEviction ==
    [][/\ (ret' # ret /\ ret'.op = "get_session" /\ ret'.result # 0) =>
            /\ sessions'[Len(sessions')] = ret'.result
            /\ Stored(sessions') = Stored(sessions)
            /\ heap'[ret'.result].created_at = heap[ret'.result].created_at
       /\ next_id' = next_id + 1 =>
            \A e \in Stored(sessions) \ Stored(sessions') :
                /\ e = recency[1]
                /\ \A k \in Stored(sessions) \cap Stored(sessions') :
                      Pos(recency, e) < Pos(recency, k)]_vars

\* C6 witness: session 2 has been evicted while session 1, created before it
\* and looked up after it was created, is kept
C6_Witness ==
    /\ InStore(sessions, 1)
    /\ ~InStore(sessions, 2)
    /\ next_id > 2

\* C7: a request naming a session id that is not in the cache gets the "no
\* active session" error (400) and is never answered from another session,
\* the chat query included.
C7_UnknownIdIsAnError ==
    [][(/\ ret' # ret
        /\ ret'.op \in {"get_session", "chat_query"}
        /\ ret'.arg # 0
        /\ ~InStore(sessions, ret'.arg))
       => (ret'.status = 400 /\ ret'.result = 0)]_vars

\* C8: get_session and get_session_by_change on an unknown id or change
\* number return None and leave the store and its order unchanged;
\* remove_session(id) returns True exactly when id was stored, after which
\* get_session(id) returns None, and returns False leaving the store
\* unchanged otherwise.
C8_AbsenceIsNotAnError ==
    [][/\ (/\ ret' # ret
           /\ ret'.op = "get_session"
           /\ ~InStore(sessions, ret'.arg))
          => (ret'.result = 0 /\ sessions' = sessions /\ heap' = heap)
       /\ (ret' # ret /\ ret'.op = "get_session_by_change")
          => /\ sessions' = sessions /\ heap' = heap
             /\ (\A id \in Stored(sessions) : heap[id].change_number # ret'.change)
                => ret'.result = 0
       /\ (ret' # ret /\ ret'.op = "remove_session")
          => /\ ret'.status = 200 <=> InStore(sessions, ret'.arg)
             /\ ~InStore(sessions', ret'.arg)
             /\ get_session(sessions', ret'.arg) = sessions'
             /\ ret'.status # 200 => sessions' = sessions]_vars

\* C8 witness: remove_session has answered False for an id that is not
\* stored, with two sessions in the cache
C8_Witness ==
    /\ ret.op = "remove_session"
    /\ ret.status = 404
    /\ Len(sessions) = 2

\* the devices of a directory for which exactly one phase was captured
PartialDevices(name) ==
    {k \in 1..Len(DirectoryOf(name).device_logs) :
        DirectoryOf(name).device_logs[k].pre.present
            # DirectoryOf(name).device_logs[k].post.present}

\* the DeviceDiff of a session for a hostname compares every command of the
\* capture with the empty string
DiffedAgainstEmpty(session, capture) ==
    \E i \in 1..Len(session.device_diffs) :
        /\ session.device_diffs[i].hostname = capture.hostname
        /\ session.device_diffs[i].total_commands = Cardinality(CommandNames(capture))
        /\ \A j \in 1..Len(session.device_diffs[i].command_diffs) :
              \/ session.device_diffs[i].command_diffs[j].pre_output = <<>>
              \/ session.device_diffs[i].command_diffs[j].post_output = <<>>

\* C9: a device with only one phase captured is not an error: the analysis
\* succeeds, the device gets a DeviceDiff comparing every command of the
\* present phase with the empty string, and it is in the device summaries.
C9_PartialCaptureIsDiffed ==
    (ret.op = "analyze_change" /\ PartialDevices(ret.change) # {})
    => /\ ret.status = 200
       /\ \A k \in PartialDevices(ret.change) :
             LET e == DirectoryOf(ret.change).device_logs[k]
             IN  /\ \E i \in 1..Len(heap[ret.result].devices) :
                        heap[ret.result].devices[i].hostname = e.hostname
                 /\ DiffedAgainstEmpty(heap[ret.result],
                                       IF e.pre.present THEN e.pre ELSE e.post)

\* C10: a command present only in the post capture, with an output of N > 0
\* lines, gets added_lines = N, removed_lines = 0 and has_changes.
C10_PostOnlyCommand ==
    \A id \in DOMAIN heap :
        \A i \in 1..Len(heap[id].device_diffs) :
            \A j \in 1..Len(heap[id].device_diffs[i].command_diffs) :
                LET cd == heap[id].device_diffs[i].command_diffs[j]
                    e  == CHOOSE x \in Stored(heap[id].device_logs) :
                              x.hostname = heap[id].device_diffs[i].hostname
                IN  (/\ cd.command \notin CommandNames(e.pre)
                     /\ cd.command \in CommandNames(e.post)
                     /\ CommandOutputOf(e.post, cd.command) # <<>>)
                    => /\ cd.added_lines = Len(SplitLines(CommandOutputOf(e.post, cd.command)))
                       /\ cd.removed_lines = 0
                       /\ cd.has_changes

(***************************************************************************)
(* The diff model: generate_command_diff and generate_device_diff called   *)
(* on texts and captures drawn from bounded sets.  run holds the call and  *)
(* its arguments, ret the value returned.                                  *)
(***************************************************************************)
\* the lines a text is made of: plain lines, lines the timestamps rules
\* rewrite, and lines whose own text begins with "-" or "+"
LineAlphabet ==
    {<<"a", "\n">>, <<"1", "\n">>, <<"2", "\n">>, <<"-", "-", "\n">>, <<"+", "+", "\n">>}

\* ''.join(lines)
RECURSIVE Concat(_)
Concat(lines) == IF lines = <<>> THEN <<>> ELSE Head(lines) \o Concat(Tail(lines))

Texts == {Concat(ls) : ls \in UNION {[1..n -> LineAlphabet] : n \in 0..MaxLines}}

\* the captures of one device: up to MaxCmds commands, names may repeat
CaptureCommands ==
    UNION {[1..n -> {Cmd(c, o) : c \in {CmdVer, CmdBgp}, o \in {TextA, TextAB}}] :
              n \in 0..MaxCmds}

Captures == {DeviceLog("R1", "CHG1", cs) : cs \in CaptureCommands}

CommandDiffCalls ==
    {[pc |-> "call", fn |-> "generate_command_diff", pre |-> x, post |-> y] :
        x \in Texts, y \in Texts}

DeviceDiffCalls ==
    {[pc |-> "call", fn |-> "generate_device_diff", pre |-> x, post |-> y] :
        x \in Captures, y \in Captures}

InitDiff ==
    /\ settings \in MaskingConfigs
    /\ sessions = <<>>
    /\ heap = <<>>
    /\ now = 0
    /\ next_id = 1
    /\ (run \in CommandDiffCalls \/ run \in DeviceDiffCalls)
    /\ ret = NoRet
    /\ recency = <<>>

\* DiffGenerator(masker=DataMasker(), masking_categories=...).generate_command_diff
GenerateCommandDiff ==
    /\ run.pc = "call"
    /\ run.fn = "generate_command_diff"
    /\ ret' = generate_command_diff(DataMasker(settings), MASKING_PROFILES.standard,
                                    CmdVer, run.pre, run.post)
    /\ run' = [run EXCEPT !.pc = "done"]
    /\ UNCHANGED <<settings, sessions, heap, now, next_id, recency>>

\* DiffGenerator(masker=DataMasker(), masking_categories=...).generate_device_diff
GenerateDeviceDiff ==
    /\ run.pc = "call"
    /\ run.fn = "generate_device_diff"
    /\ ret' = generate_device_diff(DataMasker(settings), MASKING_PROFILES.standard,
                                   run.pre, run.post)
    /\ run' = [run EXCEPT !.pc = "done"]
    /\ UNCHANGED <<settings, sessions, heap, now, next_id, recency>>

NextDiff == GenerateCommandDiff \/ GenerateDeviceDiff

SpecDiff == InitDiff /\ [][NextDiff]_vars

Returned(fn) == run.pc = "done" /\ run.fn = fn

\* the text a capture's output is diffed as
MaskedAs(text) == mask_text(DataMasker(settings), text, MASKING_PROFILES.standard)

\* the lines of a and of b that the line diff of a and b pairs up
PairedLines(a, b) == Cardinality(Matched(get_matching_blocks(a, b, 0, Len(a), 0, Len(b)), 1))

\* C11: added_lines and removed_lines are exactly the numbers of lines the
\* line diff of the masked texts inserts and deletes, whatever the lines
\* contain, and has_changes is false only when the masked texts are the
\* same line for line.  (Stated for two non-empty texts: what happens to an
\* empty side is C10's case.)
C11_ExactLineCounts ==
    (Returned("generate_command_diff") /\ run.pre # <<>> /\ run.post # <<>>) =>
        /\ ret.added_lines = Len(SplitLines(MaskedAs(run.post)))
              - PairedLines(SplitLines(MaskedAs(run.pre)), SplitLines(MaskedAs(run.post)))
        /\ ret.removed_lines = Len(SplitLines(MaskedAs(run.pre)))
              - PairedLines(SplitLines(MaskedAs(run.pre)), SplitLines(MaskedAs(run.post)))
        /\ ~ret.has_changes => MaskedAs(run.pre) = MaskedAs(run.post)

\* C12: generate_command_diff(command, x, x) yields added_lines = 0,
\* removed_lines = 0, changed_lines = 0 and has_changes = false, for every
\* text x, the empty text included.
C12_SameTextNoChange ==
    (Returned("generate_command_diff") /\ run.pre = run.post) =>
        /\ ret.added_lines = 0
        /\ ret.removed_lines = 0
        /\ ret.changed_lines = 0
        /\ ~ret.has_changes

\* C12 witness: a text of two lines, its second beginning with "-", has been
\* diffed against itself with masking on
C12_Witness ==
    /\ Returned("generate_command_diff")
    /\ settings.enabled
    /\ run.pre = <<"1", "\n", "-", "-", "\n">>
    /\ run.post = run.pre

\* C13: the command_diffs of a DeviceDiff name exactly the union of the pre
\* and post command names, each once and in ascending order; total_commands
\* is their number; of a name repeated inside a capture the output of the
\* last occurrence is the one diffed.
C13_SortedUnionLastWins ==
    Returned("generate_device_diff") =>
        /\ {ret.command_diffs[k].command : k \in 1..Len(ret.command_diffs)}
              = {run.pre.commands[i].command : i \in 1..Len(run.pre.commands)}
                \cup {run.post.commands[i].command : i \in 1..Len(run.post.commands)}
        /\ \A i, j \in 1..Len(ret.command_diffs) :
              i < j => StrLess(ret.command_diffs[i].command, ret.command_diffs[j].command)
        /\ ret.total_commands = Len(ret.command_diffs)
        /\ \A k \in 1..Len(ret.command_diffs) :
              /\ \A i \in 1..Len(run.pre.commands) :
                    (/\ run.pre.commands[i].command = ret.command_diffs[k].command
                     /\ \A j \in (i + 1)..Len(run.pre.commands) :
                           run.pre.commands[j].command # ret.command_diffs[k].command)
                    => ret.command_diffs[k].pre_output = MaskedAs(run.pre.commands[i].output)
              /\ \A i \in 1..Len(run.post.commands) :
                    (/\ run.post.commands[i].command = ret.command_diffs[k].command
                     /\ \A j \in (i + 1)..Len(run.post.commands) :
                           run.post.commands[j].command # ret.command_diffs[k].command)
                    => ret.command_diffs[k].post_output = MaskedAs(run.post.commands[i].output)

\* C13 witness: the pre capture repeats a name with two different outputs and
\* the post capture has another name only
C13_Witness ==
    /\ Returned("generate_device_diff")
    /\ run.pre.commands = <<Cmd(CmdVer, TextA), Cmd(CmdVer, TextAB)>>
    /\ run.post.commands = <<Cmd(CmdBgp, TextA)>>

\* C14: commands_with_changes is the number of command diffs with
\* has_changes, the three totals are the sums of added_lines, removed_lines
\* and changed_lines over exactly those, and commands_with_changes never
\* exceeds total_commands.
C14_TotalsOverChanged ==
    Returned("generate_device_diff") =>
        /\ ret.commands_with_changes
              = Cardinality({k \in 1..Len(ret.command_diffs) : ret.command_diffs[k].has_changes})
        /\ ret.total_added = SeqSum([k \in 1..Len(ret.command_diffs) |->
              IF ret.command_diffs[k].has_changes THEN ret.command_diffs[k].added_lines ELSE 0],
              Len(ret.command_diffs))
        /\ ret.total_removed = SeqSum([k \in 1..Len(ret.command_diffs) |->
              IF ret.command_diffs[k].has_changes THEN ret.command_diffs[k].removed_lines ELSE 0],
              Len(ret.command_diffs))
        /\ ret.total_changed = SeqSum([k \in 1..Len(ret.command_diffs) |->
              IF ret.command_diffs[k].has_changes THEN ret.command_diffs[k].changed_lines ELSE 0],
              Len(ret.command_diffs))
        /\ ret.commands_with_changes <= ret.total_commands

\* C14 witness: a DeviceDiff of two commands, one changed and one not
C14_Witness ==
    /\ Returned("generate_device_diff")
    /\ ret.total_commands = 2
    /\ ret.commands_with_changes = 1
    /\ ret.total_added > 0

(***************************************************************************)
(* Query engine (core/query_engine.py).  A table pattern is matched on the  *)
(* whitespace-separated fields of the text from a line start on (\s also   *)
(* matches a line end); a match is its groups and the line its last field  *)
(* is on, no groups for no match.  A dict is a sequence of [key, value]    *)
(* entries in insertion order.  The summary text of a result is the        *)
(* sequence of its lines, each by its kind and the values formatted in.    *)
(***************************************************************************)
Digits == {"0", "1", "2", "3", "4", "5", "6", "7", "8", "9"}

\* \s
IsSpace(c) == c \in {" ", "\t", "\n", "\r"}

\* \d+ on a whole field
IsNumber(f) == f # <<>> /\ \A i \in 1..Len(f) : f[i] \in Digits

\* any(kw in text for kw in kws)
AnyIn(text, kws) == \E kw \in kws : Contains(text, kw)

\* the fields (\S+) of a text: the text of each, the whitespace before it,
\* whether whitespace follows it, and the number of line ends before it
RECURSIVE Fields(_, _, _)
Fields(s, gap, line) ==
    LET RECURSIVE FieldLen(_)
        FieldLen(t) == IF t = <<>> \/ IsSpace(Head(t)) THEN 0 ELSE 1 + FieldLen(Tail(t))
    IN  IF s = <<>> THEN <<>>
        ELSE IF IsSpace(Head(s))
             THEN Fields(Tail(s), Append(gap, Head(s)),
                         IF Head(s) = "\n" THEN line + 1 ELSE line)
             ELSE <<[text |-> SubSeq(s, 1, FieldLen(s)), gap |-> gap,
                     spaced |-> FieldLen(s) < Len(s), line |-> line]>>
                  \o Fields(SubSeq(s, FieldLen(s) + 1, Len(s)), <<>>, line)

\* d[key] = value
DictPut(d, key, value) ==
    IF \E i \in 1..Len(d) : d[i].key = key
    THEN [i \in 1..Len(d) |-> IF d[i].key = key THEN [key |-> key, value |-> value] ELSE d[i]]
    ELSE Append(d, [key |-> key, value |-> value])

\* d[e.key] = e.value for each entry e in turn
RECURSIVE DictPutAll(_, _)
DictPutAll(d, entries) ==
    IF entries = <<>> THEN d
    ELSE DictPutAll(DictPut(d, Head(entries).key, Head(entries).value), Tail(entries))

\* key in d
DictHas(d, key) == \E i \in 1..Len(d) : d[i].key = key

\* d.get(key, default)
DictGet(d, key, default) ==
    IF DictHas(d, key) THEN d[CHOOSE i \in 1..Len(d) : d[i].key = key].value ELSE default

\* str.strip()
Strip(s) ==
    LET RECURSIVE LStrip(_)
        LStrip(t) == IF t # <<>> /\ IsSpace(Head(t)) THEN LStrip(Tail(t)) ELSE t
        Reversed(t) == [i \in 1..Len(t) |-> t[Len(t) + 1 - i]]
    IN  Reversed(LStrip(Reversed(LStrip(s))))

\* text.split('\n'): the pieces between line ends, the last one included
SplitNl(text) ==
    [i \in 1..Len(SplitLines(text)) |->
        SelectSeq(SplitLines(text)[i], LAMBDA c : c # "\n")]
    \o (IF text = <<>> \/ text[Len(text)] = "\n" THEN <<<<>>>> ELSE <<>>)

\* INTERFACE_STATUS_PATTERNS at a line start, fs the fields from there: the
\* first ("brief") is a row of show ip interface brief, the second ("status")
\* a row of show interfaces status (\S* takes the second field, or nothing
\* when two whitespace characters precede the state), the third ("protocol")
\* is "<name> is <state>, line protocol is <state>"
INTERFACE_STATUS_PATTERNS(p, fs) ==
    LET \* (up|down) at the start of a field, "" when it does not match
        UpOrDown(f) ==
            IF StartsWith(Lower(f), <<"u", "p">>) THEN SubSeq(f, 1, 2)
            ELSE IF StartsWith(Lower(f), <<"d", "o", "w", "n">>) THEN SubSeq(f, 1, 4) ELSE <<>>
        \* (up|down|administratively down) and the text after it, as the
        \* fields k.. of fs followed by whitespace: the state, "" for none
        State(k, after) ==
            IF Len(fs) >= k /\ fs[k].spaced
                  /\ Lower(fs[k].text) \in {<<"u", "p">> \o after, <<"d", "o", "w", "n">> \o after}
            THEN SubSeq(fs[k].text, 1, Len(fs[k].text) - Len(after))
            ELSE IF /\ Len(fs) >= k + 1 /\ fs[k + 1].spaced
                    /\ fs[k + 1].gap = <<" ">>
                    /\ Lower(fs[k].text) = <<"a", "d", "m", "i", "n", "i", "s", "t", "r", "a", "t", "i", "v", "e", "l", "y">>
                    /\ Lower(fs[k + 1].text) = <<"d", "o", "w", "n">> \o after
                 THEN fs[k].text \o <<" ">> \o SubSeq(fs[k + 1].text, 1, 4)
                 ELSE <<>>
        \* the number of fields State matched
        Width(state) == IF Contains(state, <<" ">>) THEN 2 ELSE 1
        Brief(n) ==
            IF Len(fs) >= n /\ UpOrDown(fs[n].text) # <<>>
            THEN [groups |-> <<fs[1].text, fs[2].text, State(5, <<>>), UpOrDown(fs[n].text)>>,
                  last |-> fs[n].line]
            ELSE [groups |-> <<>>, last |-> 0]
        Protocol(n) ==
            IF /\ Len(fs) >= n + 3
               /\ Lower(fs[n].text) = <<"l", "i", "n", "e">>
               /\ Lower(fs[n + 1].text) = <<"p", "r", "o", "t", "o", "c", "o", "l">> /\ fs[n + 1].gap = <<" ">>
               /\ Lower(fs[n + 2].text) = <<"i", "s">> /\ fs[n + 2].gap = <<" ">>
               /\ UpOrDown(fs[n + 3].text) # <<>>
            THEN [groups |-> <<fs[1].text, State(3, <<",">>), UpOrDown(fs[n + 3].text)>>,
                  last |-> fs[n + 3].line]
            ELSE [groups |-> <<>>, last |-> 0]
        PortState(f) ==
            Lower(f.text) \in {<<"c", "o", "n", "n", "e", "c", "t", "e", "d">>, <<"n", "o", "t", "c", "o", "n", "n", "e", "c", "t">>, <<"d", "i", "s", "a", "b", "l", "e", "d">>, <<"e", "r", "r", "-", "d", "i", "s", "a", "b", "l", "e", "d">>} /\ f.spaced
    IN  IF fs = <<>> \/ fs[1].gap # <<>> THEN [groups |-> <<>>, last |-> 0]
        ELSE IF p = "brief"
        THEN IF Len(fs) >= 6 /\ State(5, <<>>) # <<>>
             THEN Brief(5 + Width(State(5, <<>>)))
             ELSE [groups |-> <<>>, last |-> 0]
        ELSE IF p = "status"
        THEN IF Len(fs) >= 2 /\ \E pre \in {<<"g", "i">>, <<"f", "a">>, <<"t", "e">>, <<"e", "t", "h">>} :
                    StartsWith(Lower(fs[1].text), pre) /\ Len(fs[1].text) > Len(pre)
             THEN IF Len(fs) >= 3 /\ PortState(fs[3])
                  THEN [groups |-> <<fs[1].text, fs[3].text>>, last |-> fs[3].line]
                  ELSE IF PortState(fs[2]) /\ Len(fs[2].gap) >= 2
                       THEN [groups |-> <<fs[1].text, fs[2].text>>, last |-> fs[2].line]
                       ELSE [groups |-> <<>>, last |-> 0]
             ELSE [groups |-> <<>>, last |-> 0]
        ELSE IF Len(fs) >= 7 /\ Lower(fs[2].text) = <<"i", "s">> /\ State(3, <<",">>) # <<>>
             THEN Protocol(3 + Width(State(3, <<",">>)))
             ELSE [groups |-> <<>>, last |-> 0]

\* \d+\.\d+\.\d+\.\d+ on a whole field
IsAddress(f) ==
    \E i, j, k \in 2..(Len(f) - 1) :
        /\ i < j /\ j < k
        /\ f[i] = "." /\ f[j] = "." /\ f[k] = "."
        /\ IsNumber(SubSeq(f, 1, i - 1)) /\ IsNumber(SubSeq(f, i + 1, j - 1))
        /\ IsNumber(SubSeq(f, j + 1, k - 1)) /\ IsNumber(SubSeq(f, k + 1, Len(f)))

\* BGP_NEIGHBOR_PATTERN: (neighbor), version, (AS), five counters, (up/down
\* time), (state or prefix count)
BGP_NEIGHBOR_PATTERN(fs) ==
    IF /\ Len(fs) >= 10 /\ fs[1].gap = <<>>
       /\ IsAddress(fs[1].text)
       /\ \A n \in 2..8 : IsNumber(fs[n].text)
    THEN [groups |-> <<fs[1].text, fs[3].text, fs[9].text, fs[10].text>>, last |-> fs[10].line]
    ELSE [groups |-> <<>>, last |-> 0]

\* OSPF_NEIGHBOR_PATTERN: (neighbor id), priority, (state)/role, dead time,
\* (address), (interface)
OSPF_NEIGHBOR_PATTERN(fs) ==
    IF /\ Len(fs) >= 6 /\ fs[1].gap = <<>>
       /\ IsAddress(fs[1].text) /\ IsNumber(fs[2].text)
       /\ \E st \in {<<"F", "U", "L", "L">>, <<"2", "W", "A", "Y">>, <<"I", "N", "I", "T">>, <<"D", "O", "W", "N">>} :
             StartsWith(fs[3].text, st \o <<"/">>) /\ Len(fs[3].text) > 5
    THEN [groups |-> <<fs[1].text, SubSeq(fs[3].text, 1, 4), fs[5].text, fs[6].text>>,
          last |-> fs[6].line]
    ELSE [groups |-> <<>>, last |-> 0]

\* vlan_pattern of _extract_vlans: (id) (name) (active|suspend)
vlan_pattern(fs) ==
    IF /\ Len(fs) >= 3 /\ fs[1].gap = <<>>
       /\ IsNumber(fs[1].text)
       /\ \E st \in {<<"a", "c", "t", "i", "v", "e">>, <<"s", "u", "s", "p", "e", "n", "d">>} : StartsWith(Lower(fs[3].text), st)
    THEN [groups |-> <<fs[1].text, fs[2].text,
                       SubSeq(fs[3].text, 1,
                              IF StartsWith(Lower(fs[3].text), <<"a", "c", "t", "i", "v", "e">>) THEN 6 ELSE 7)>>,
          last |-> fs[3].line]
    ELSE [groups |-> <<>>, last |-> 0]

\* pattern.findall(text) for a table pattern: the groups of the matches from
\* left to right; ^ matches at the line starts (re.MULTILINE) and the search
\* goes on after the end of a match
findall(pattern, text) ==
    LET after == {i \in 1..Len(text) : i = 1 \/ text[i - 1] = "\n"}
        starts == [k \in 1..Cardinality(after) |->
                      CHOOSE i \in after : Cardinality({j \in after : j < i}) = k - 1]
        MatchAt(fs) ==
            CASE pattern = "bgp"  -> BGP_NEIGHBOR_PATTERN(fs)
              [] pattern = "ospf" -> OSPF_NEIGHBOR_PATTERN(fs)
              [] pattern = "vlan" -> vlan_pattern(fs)
              [] OTHER            -> INTERFACE_STATUS_PATTERNS(pattern, fs)
        RECURSIVE From(_)
        From(k) ==
            IF k > Len(starts) THEN <<>>
            ELSE IF MatchAt(Fields(SubSeq(text, starts[k], Len(text)), <<>>, 0)).groups # <<>>
                 THEN <<MatchAt(Fields(SubSeq(text, starts[k], Len(text)), <<>>, 0)).groups>>
                      \o From(k + 1
                              + MatchAt(Fields(SubSeq(text, starts[k], Len(text)), <<>>, 0)).last)
                 ELSE From(k + 1)
    IN  From(1)

\* LogQueryEngine._extract_interface_status
extract_interface_status(device_log) ==
    LET \* lines 722-731: the entry a match adds
        Entry(match) ==
            [key   |-> match[1],
             value |-> Lower(IF Len(match) = 4 THEN match[3] \o <<"/">> \o match[4]
                             ELSE IF Len(match) = 3 THEN match[2] \o <<"/">> \o match[3]
                             ELSE match[2])]
        Entries(p, text) == [i \in 1..Len(findall(p, text)) |-> Entry(findall(p, text)[i])]
        RECURSIVE Over(_, _)
        Over(interfaces, commands) ==
            IF commands = <<>> THEN interfaces
            ELSE Over(DictPutAll(DictPutAll(DictPutAll(interfaces,
                          Entries("brief", Head(commands).output)),
                          Entries("status", Head(commands).output)),
                          Entries("protocol", Head(commands).output)),
                      Tail(commands))
    IN  Over(<<>>, device_log.commands)

\* LogQueryEngine._extract_bgp_neighbors (kind "bgp"), _extract_ospf_neighbors
\* (kind "ospf") and _extract_vlans (kind "vlan")
extract_table(kind, device_log) ==
    LET Entry(match) ==
            [key   |-> match[1],
             value |-> CASE kind = "bgp"  -> [as |-> match[2], state |-> match[4]]
                         [] kind = "ospf" -> [state |-> match[2], interface |-> match[4]]
                         [] kind = "vlan" -> [name |-> match[2], status |-> match[3]]]
        Entries(text) == [i \in 1..Len(findall(kind, text)) |-> Entry(findall(kind, text)[i])]
        name == CASE kind = "bgp" -> <<"b", "g", "p">> [] kind = "ospf" -> <<"o", "s", "p", "f">>
                  [] kind = "vlan" -> <<"v", "l", "a", "n">>
        RECURSIVE Over(_, _)
        Over(table, commands) ==
            IF commands = <<>> THEN table
            ELSE Over(IF Contains(Lower(Head(commands).command), name)
                      THEN DictPutAll(table, Entries(Head(commands).output))
                      ELSE table,
                      Tail(commands))
    IN  Over(<<>>, device_log.commands)

\* the status an interface missing from a capture is given
NotPresent == <<"n", "o", "t", " ", "p", "r", "e", "s", "e", "n", "t">>

\* variant: a status with "down" in it is not taken for down
is_down_by_port_state(status) ==
    AnyIn(Lower(status), {<<"n", "o", "t", "c", "o", "n", "n", "e", "c", "t">>, <<"d", "i", "s", "a", "b", "l", "e", "d">>, <<"e", "r", "r", "-", "d", "i", "s", "a", "b", "l", "e", "d">>, <<"n", "o", "t", " ", "p", "r", "e", "s", "e", "n", "t">>})

\* LogQueryEngine._is_down
is_down(status) ==
    AnyIn(Lower(status), {<<"d", "o", "w", "n">>, <<"n", "o", "t", "c", "o", "n", "n", "e", "c", "t">>, <<"d", "i", "s", "a", "b", "l", "e", "d">>, <<"e", "r", "r", "-", "d", "i", "s", "a", "b", "l", "e", "d">>, <<"n", "o", "t", " ", "p", "r", "e", "s", "e", "n", "t">>})

\* LogQueryEngine._is_up
is_up(status) ==
    AnyIn(Lower(status), {<<"u", "p">>, <<"c", "o", "n", "n", "e", "c", "t", "e", "d">>}) /\ ~Contains(Lower(status), <<"d", "o", "w", "n">>)

\* LogQueryEngine._classify_change
classify_change(pre, post) ==
    IF is_down(pre) /\ is_up(post) THEN "CAME_UP"
    ELSE IF is_up(pre) /\ is_down(post) THEN "WENT_DOWN"
    ELSE IF pre = NotPresent THEN "NEW"
    ELSE IF post = NotPresent THEN "REMOVED"
    ELSE "MODIFIED"


\* QueryResult(query_type, summary, devices_affected, details, total_findings)
QueryResult(query_type, summary, devices_affected, details, total_findings) ==
    [query_type       |-> query_type,
     summary          |-> summary,
     devices_affected |-> devices_affected,
     details          |-> details,
     total_findings   |-> total_findings]

\* variant: the devices are gone over from the last to the first
WithCapturesBackward(device_logs, both) ==
    LET with == SelectSeq(device_logs, LAMBDA e : e.post.present /\ (both => e.pre.present))
    IN  [i \in 1..Len(with) |-> with[Len(with) + 1 - i]]

\* the devices of the map with a post capture and, when asked, a pre capture
WithCaptures(device_logs, both) ==
    SelectSeq(device_logs, LAMBDA e : e.post.present /\ (both => e.pre.present))

\* the details list of a finder: one entry for each device with findings, in
\* the order of the device map.  findings is the list the source stores under
\* "changes", "interfaces", "errors" or "matches"
DetailsOf(entries, Findings(_)) ==
    LET found == SelectSeq(entries, LAMBDA e : Findings(e) # <<>>)
    IN  [k \in 1..Len(found) |->
            [hostname |-> found[k].hostname, findings |-> Findings(found[k])]]

\* what a finder over per-device findings returns.  The summary is the line
\* for no findings, or a heading with the total and, for each of the first
\* `devices` devices (0: all), its heading, its first `limit` findings (0:
\* all) and, where the source writes it, the line "... and N more"
FinderResult(query_type, details, devices, limit, with_more) ==
    LET total == SeqSum([i \in 1..Len(details) |-> Len(details[i].findings)], Len(details))
        Shown(d) == IF limit = 0 THEN Len(d.findings) ELSE Min(limit, Len(d.findings))
        RECURSIVE Lines(_)
        Lines(ds) ==
            IF ds = <<>> THEN <<>>
            ELSE <<[kind |-> "device", hostname |-> Head(ds).hostname,
                    n |-> Len(Head(ds).findings)]>>
                 \o [i \in 1..Shown(Head(ds)) |->
                        [kind |-> "finding", hostname |-> Head(ds).hostname, n |-> i]]
                 \o (IF with_more /\ Len(Head(ds).findings) > limit
                     THEN <<[kind |-> "more", hostname |-> Head(ds).hostname,
                             n |-> Len(Head(ds).findings) - limit]>>
                     ELSE <<>>)
                 \o Lines(Tail(ds))
    IN  QueryResult(query_type,
            IF details = <<>> THEN <<[kind |-> "none", hostname |-> "", n |-> 0]>>
            ELSE <<[kind |-> "head", hostname |-> "", n |-> total]>>
                 \o Lines(IF devices = 0 THEN details
                          ELSE SubSeq(details, 1, Min(devices, Len(details)))),
            [i \in 1..Len(details) |-> details[i].hostname],
            details, total)

\* set(pre_interfaces.keys()) | set(post_interfaces.keys()) in the order the
\* interpreter iterates it: a set of strings has no defined order (it follows
\* the hash seed of the process)
SetOrder(pre, post, order) ==
    LET keys == [i \in 1..Len(pre) |-> pre[i].key]
                \o SelectSeq([i \in 1..Len(post) |-> post[i].key],
                             LAMBDA k : ~DictHas(pre, k))
    IN  IF order = "forward" THEN keys ELSE [i \in 1..Len(keys) |-> keys[Len(keys) + 1 - i]]

\* find_interface_changes, lines 145-158: the changes of one device
InterfaceChanges(pre, post, order) ==
    LET keys == SelectSeq(SetOrder(pre, post, order),
                    LAMBDA k : DictGet(pre, k, NotPresent) # DictGet(post, k, NotPresent))
    IN  [i \in 1..Len(keys) |->
            [interface   |-> keys[i],
             pre_status  |-> DictGet(pre, keys[i], NotPresent),
             post_status |-> DictGet(post, keys[i], NotPresent),
             change_type |-> classify_change(DictGet(pre, keys[i], NotPresent),
                                             DictGet(post, keys[i], NotPresent))]]

\* LogQueryEngine.find_interface_changes
find_interface_changes(device_logs, order) ==
    FinderResult("interface_status",
        DetailsOf(WithCaptures(device_logs, TRUE),
            LAMBDA e : InterfaceChanges(extract_interface_status(e.pre),
                                        extract_interface_status(e.post), order)),
        0, 5, TRUE)

\* find_interfaces_down, lines 201-210 (InState is _is_down), and
\* find_interfaces_up, lines 250-259 (InState is _is_up): the interfaces of
\* post that are in the state and were not before
InterfacesTurned(pre, post, InState(_)) ==
    LET hits == SelectSeq(post, LAMBDA e :
                    InState(e.value) /\ ~InState(DictGet(pre, e.key, NotPresent)))
    IN  [i \in 1..Len(hits) |->
            [interface   |-> hits[i].key,
             pre_status  |-> DictGet(pre, hits[i].key, NotPresent),
             post_status |-> hits[i].value]]

\* LogQueryEngine.find_interfaces_down
find_interfaces_down(device_logs) ==
    FinderResult("interface_down",
        DetailsOf(WithCaptures(device_logs, TRUE),
            LAMBDA e : InterfacesTurned(extract_interface_status(e.pre),
                                        extract_interface_status(e.post), is_down)),
        0, 0, FALSE)

\* LogQueryEngine.find_interfaces_up
find_interfaces_up(device_logs) ==
    FinderResult("interface_up",
        DetailsOf(WithCaptures(device_logs, TRUE),
            LAMBDA e : InterfacesTurned(extract_interface_status(e.pre),
                                        extract_interface_status(e.post), is_up)),
        0, 0, FALSE)

\* the changes found going over the table of post: NEW for a key pre has not
\* and, but for VLANs, STATE_CHANGE for a state that differs (find_bgp_changes
\* lines 352-366, find_ospf_changes lines 423-437, find_vlan_changes lines
\* 490-496)
PostChanges(kind, pre, post) ==
    LET New(e) ==
            CASE kind = "bgp"  -> [neighbor |-> e.key, change |-> "NEW", as |-> e.value.as,
                                   state |-> e.value.state]
              [] kind = "ospf" -> [neighbor |-> e.key, change |-> "NEW",
                                   state |-> e.value.state, interface |-> e.value.interface]
              [] kind = "vlan" -> [vlan |-> e.key, change |-> "NEW", name |-> e.value.name]
        RECURSIVE OverPost(_)
        OverPost(es) ==
            IF es = <<>> THEN <<>>
            ELSE (IF ~DictHas(pre, Head(es).key) THEN <<New(Head(es))>>
                  ELSE IF kind # "vlan"
                          /\ DictGet(pre, Head(es).key, Head(es).value).state # Head(es).value.state
                       THEN <<[neighbor   |-> Head(es).key, change |-> "STATE_CHANGE",
                               pre_state  |-> DictGet(pre, Head(es).key, Head(es).value).state,
                               post_state |-> Head(es).value.state]>>
                       ELSE <<>>)
                 \o OverPost(Tail(es))
    IN  OverPost(post)

\* variant: a key that post has not is not reported
TableChangesNoRemoved(kind, pre, post) == PostChanges(kind, pre, post)

\* the changes of one device between two tables: those found going over post,
\* then REMOVED for each key of pre that post has not (find_bgp_changes lines
\* 368-375, find_ospf_changes lines 439-444, find_vlan_changes lines 498-504)
TableChanges(kind, pre, post) ==
    LET Removed(e) ==
            CASE kind = "bgp"  -> [neighbor |-> e.key, change |-> "REMOVED", as |-> e.value.as]
              [] kind = "ospf" -> [neighbor |-> e.key, change |-> "REMOVED"]
              [] kind = "vlan" -> [vlan |-> e.key, change |-> "REMOVED", name |-> e.value.name]
        gone == SelectSeq(pre, LAMBDA e : ~DictHas(post, e.key))
    IN  PostChanges(kind, pre, post) \o [i \in 1..Len(gone) |-> Removed(gone[i])]

\* LogQueryEngine.find_bgp_changes
find_bgp_changes(device_logs) ==
    FinderResult("bgp_changes",
        DetailsOf(WithCaptures(device_logs, TRUE),
            LAMBDA e : TableChanges("bgp", extract_table("bgp", e.pre),
                                    extract_table("bgp", e.post))),
        0, 0, FALSE)

\* LogQueryEngine.find_ospf_changes
find_ospf_changes(device_logs) ==
    FinderResult("ospf_changes",
        DetailsOf(WithCaptures(device_logs, TRUE),
            LAMBDA e : TableChanges("ospf", extract_table("ospf", e.pre),
                                    extract_table("ospf", e.post))),
        0, 0, FALSE)

\* LogQueryEngine.find_vlan_changes
find_vlan_changes(device_logs) ==
    FinderResult("vlan_changes",
        DetailsOf(WithCaptures(device_logs, TRUE),
            LAMBDA e : TableChanges("vlan", extract_table("vlan", e.pre),
                                    extract_table("vlan", e.post))),
        0, 0, FALSE)

\* ERROR_PATTERNS[p - 1].search(line): 1 is the error words, 2 the system log
\* format %\w+-\d+-\w+:
ERROR_PATTERNS(p, line) ==
    LET IsWord(c) == c \in Digits \/ c = "_" \/ (\E k \in 1..Len(LowerCase) : LowerChar(c) = LowerCase[k])
        RECURSIVE Run(_, _)
        \* the length of the run of word (digits: FALSE) or digit characters
        Run(s, word) ==
            IF s = <<>> \/ (~word /\ Head(s) \notin Digits) \/ (word /\ ~IsWord(Head(s)))
            THEN 0 ELSE 1 + Run(Tail(s), word)
        Rest(s, i) == SubSeq(s, i, Len(s))
        \* -\w+: at s
        Tail3(s) == /\ Len(s) >= 3 /\ Head(s) = "-" /\ Run(Tail(s), TRUE) > 0
                    /\ Len(s) >= Run(Tail(s), TRUE) + 2 /\ s[Run(Tail(s), TRUE) + 2] = ":"
        \* -\d+-\w+: at s
        Tail2(s) == /\ Len(s) >= 5 /\ Head(s) = "-" /\ Run(Tail(s), FALSE) > 0
                    /\ Tail3(Rest(s, Run(Tail(s), FALSE) + 2))
        \* %\w+-\d+-\w+: at s
        Syslog(s) == /\ Len(s) >= 7 /\ Head(s) = "%" /\ Run(Tail(s), TRUE) > 0
                     /\ Tail2(Rest(s, Run(Tail(s), TRUE) + 2))
    IN  IF p = 1
        THEN AnyIn(Lower(line), {<<"e", "r", "r", "o", "r">>, <<"e", "r", "r", "-", "d", "i", "s", "a", "b", "l", "e">>, <<"f", "a", "i", "l">>, <<"d", "o", "w", "n">>, <<"w", "a", "r", "n", "i", "n", "g">>, <<"c", "r", "i", "t", "i", "c", "a", "l">>})
        ELSE \E i \in 1..Len(line) : Syslog(Rest(line, i))

\* LogQueryEngine._is_false_positive_error
is_false_positive_error(line) ==
    AnyIn(Lower(line),
          {<<"0", " ", "i", "n", "p", "u", "t", " ", "e", "r", "r", "o", "r", "s">>, <<"0", " ", "o", "u", "t", "p", "u", "t", " ", "e", "r", "r", "o", "r", "s">>, <<"n", "o", " ", "e", "r", "r", "o", "r">>, <<"e", "r", "r", "o", "r", " ", "c", "o", "u", "n", "t", ":", " ", "0">>, <<"e", "r", "r", "o", "r", "s", ":", " ", "0">>})

\* find_errors, lines 297-315: the matching lines of a capture, pattern by
\* pattern within command by command; the false positives are dropped and
\* the first ten kept
ErrorsOf(device_log) ==
    LET OfPattern(p, cmd) ==
            LET hits == SelectSeq(SplitNl(cmd.output), LAMBDA line : ERROR_PATTERNS(p, line))
            IN  [i \in 1..Len(hits) |->
                    [command |-> cmd.command, error_line |-> Strip(hits[i])]]
        RECURSIVE Over(_)
        Over(commands) ==
            IF commands = <<>> THEN <<>>
            ELSE OfPattern(1, Head(commands)) \o OfPattern(2, Head(commands))
                 \o Over(Tail(commands))
        kept == SelectSeq(Over(device_log.commands),
                          LAMBDA e : ~is_false_positive_error(e.error_line))
    IN  SubSeq(kept, 1, Min(10, Len(kept)))

\* LogQueryEngine.find_errors
find_errors(device_logs) ==
    FinderResult("errors",
        DetailsOf(WithCaptures(device_logs, FALSE), LAMBDA e : ErrorsOf(e.post)),
        0, 5, FALSE)

\* self.device_diffs = {d.hostname: d for d in device_diffs}, as its values
DiffsByHost(device_diffs) ==
    LET d == DictPutAll(<<>>, [i \in 1..Len(device_diffs) |->
                 [key |-> device_diffs[i].hostname, value |-> device_diffs[i]]])
    IN  [i \in 1..Len(d) |-> d[i].value]

\* find_config_changes, lines 544-551, and find_routing_changes, lines 587-595:
\* the command diffs with changes whose name has one of the words
CommandChanges(diff, words) ==
    LET hits == SelectSeq(diff.command_diffs,
                    LAMBDA c : AnyIn(Lower(c.command), words) /\ c.has_changes)
    IN  [i \in 1..Len(hits) |->
            [command |-> hits[i].command, added |-> hits[i].added_lines,
             removed |-> hits[i].removed_lines]]

\* LogQueryEngine.find_config_changes
find_config_changes(device_diffs) ==
    FinderResult("config_changes",
        DetailsOf(DiffsByHost(device_diffs),
            LAMBDA d : CommandChanges(d, {<<"r", "u", "n", "n", "i", "n", "g", "-", "c", "o", "n", "f", "i", "g">>, <<"c", "o", "n", "f", "i", "g">>})),
        0, 0, FALSE)

\* LogQueryEngine.find_routing_changes
find_routing_changes(device_diffs) ==
    FinderResult("routing_changes",
        DetailsOf(DiffsByHost(device_diffs),
            LAMBDA d : CommandChanges(d, {<<"r", "o", "u", "t", "e">>, <<"r", "o", "u", "t", "i", "n", "g">>})),
        0, 0, FALSE)

\* LogQueryEngine.get_change_summary
get_change_summary(device_diffs) ==
    LET hits == SelectSeq(DiffsByHost(device_diffs), LAMBDA d : d.commands_with_changes > 0)
        details == [i \in 1..Len(hits) |->
                       [hostname         |-> hits[i].hostname,
                        commands_changed |-> hits[i].commands_with_changes,
                        total_commands   |-> hits[i].total_commands,
                        lines_added      |-> hits[i].total_added,
                        lines_removed    |-> hits[i].total_removed]]
        \* sorted(details, key=commands_changed, reverse=True): stable
        RECURSIVE SortedByChanged(_)
        SortedByChanged(ds) ==
            IF ds = <<>> THEN <<>>
            ELSE LET k == CHOOSE i \in 1..Len(ds) :
                            /\ \A j \in 1..Len(ds) :
                                  ds[j].commands_changed <= ds[i].commands_changed
                            /\ \A j \in 1..(i - 1) :
                                  ds[j].commands_changed < ds[i].commands_changed
                 IN  <<ds[k]>>
                     \o SortedByChanged(SubSeq(ds, 1, k - 1) \o SubSeq(ds, k + 1, Len(ds)))
    IN  QueryResult("general_diff",
            <<[kind |-> "head", hostname |-> "", n |-> Len(DiffsByHost(device_diffs))]>>
            \o (IF details = <<>> THEN <<[kind |-> "none", hostname |-> "", n |-> 0]>>
                ELSE [i \in 1..Len(details) |->
                        [kind |-> "device", hostname |-> SortedByChanged(details)[i].hostname,
                         n |-> SortedByChanged(details)[i].commands_changed]]),
            [i \in 1..Len(details) |-> details[i].hostname],
            details, Len(details))

\* search_logs, lines 670-691: the matching lines of one device, pre then
\* post, an absent capture skipped, and the first twenty kept
MatchesOf(term, e) ==
    LET \* re.compile(re.escape(term), re.IGNORECASE).search(text)
        Search(text) == Contains(Lower(text), Lower(term))
        OfCommand(log_type, cmd) ==
            IF Search(cmd.output) \/ Search(cmd.command)
            THEN LET hits == SelectSeq(SplitNl(cmd.output), LAMBDA line : Search(line))
                 IN  [i \in 1..Len(hits) |->
                        [log_type |-> log_type, command |-> cmd.command,
                         line |-> SubSeq(Strip(hits[i]), 1, Min(100, Len(Strip(hits[i]))))]]
            ELSE <<>>
        RECURSIVE Over(_, _)
        Over(log_type, commands) ==
            IF commands = <<>> THEN <<>>
            ELSE OfCommand(log_type, Head(commands)) \o Over(log_type, Tail(commands))
        all == (IF e.pre.present THEN Over("PRE", e.pre.commands) ELSE <<>>)
               \o (IF e.post.present THEN Over("POST", e.post.commands) ELSE <<>>)
    IN  SubSeq(all, 1, Min(20, Len(all)))

\* LogQueryEngine.search_logs
search_logs(device_logs, search_term) ==
    FinderResult("search",
        DetailsOf(device_logs, LAMBDA e : MatchesOf(Strip(search_term), e)),
        5, 3, FALSE)

\* the keyword lists of query, lines 103-127
Keywords ==
    [interface |-> {<<"i", "n", "t", "e", "r", "f", "a", "c", "e">>, <<"p", "o", "r", "t">>, <<"s", "t", "a", "t", "u", "s">>},
     down      |-> {<<"d", "o", "w", "n">>, <<"w", "e", "n", "t", " ", "d", "o", "w", "n">>, <<"f", "a", "i", "l", "e", "d">>},
     up        |-> {<<"u", "p">>, <<"c", "a", "m", "e", " ", "u", "p">>, <<"e", "n", "a", "b", "l", "e", "d">>},
     bgp       |-> {<<"b", "g", "p">>, <<"n", "e", "i", "g", "h", "b", "o", "r">>, <<"p", "e", "e", "r">>},
     ospf      |-> {<<"o", "s", "p", "f">>, <<"r", "o", "u", "t", "i", "n", "g", " ", "p", "r", "o", "t", "o", "c", "o", "l">>},
     route     |-> {<<"r", "o", "u", "t", "e">>, <<"r", "o", "u", "t", "i", "n", "g">>},
     error     |-> {<<"e", "r", "r", "o", "r">>, <<"f", "a", "i", "l">>, <<"p", "r", "o", "b", "l", "e", "m">>, <<"i", "s", "s", "u", "e">>},
     vlan      |-> {<<"v", "l", "a", "n">>, <<"s", "w", "i", "t", "c", "h">>},
     config    |-> {<<"c", "o", "n", "f", "i", "g">>, <<"c", "o", "n", "f", "i", "g", "u", "r", "a", "t", "i", "o", "n">>, <<"r", "u", "n", "n", "i", "n", "g">>},
     change    |-> {<<"c", "h", "a", "n", "g", "e">>, <<"d", "i", "f", "f", "e", "r">>, <<"i", "m", "p", "a", "c", "t">>, <<"a", "f", "f", "e", "c", "t">>}]

\* variant: the error words are tested before the routing words
QueryTypeErrorsFirst(question_lower) ==
    IF AnyIn(question_lower, Keywords.interface)
    THEN IF AnyIn(question_lower, Keywords.down) THEN "interface_down"
         ELSE IF AnyIn(question_lower, Keywords.up) THEN "interface_up"
         ELSE "interface_status"
    ELSE IF AnyIn(question_lower, Keywords.bgp) THEN "bgp_changes"
    ELSE IF AnyIn(question_lower, Keywords.ospf) THEN "ospf_changes"
    ELSE IF AnyIn(question_lower, Keywords.error) THEN "errors"
    ELSE IF AnyIn(question_lower, Keywords.route) THEN "routing_changes"
    ELSE IF AnyIn(question_lower, Keywords.vlan) THEN "vlan_changes"
    ELSE IF AnyIn(question_lower, Keywords.config) THEN "config_changes"
    ELSE IF AnyIn(question_lower, Keywords.change) THEN "general_diff"
    ELSE "search"

\* LogQueryEngine.query, lines 103-131: the finder the lower-cased question
\* goes to, by the QueryType of its result
QueryTypeOf(question_lower) ==
    IF AnyIn(question_lower, Keywords.interface)
    THEN IF AnyIn(question_lower, Keywords.down) THEN "interface_down"
         ELSE IF AnyIn(question_lower, Keywords.up) THEN "interface_up"
         ELSE "interface_status"
    ELSE IF AnyIn(question_lower, Keywords.bgp) THEN "bgp_changes"
    ELSE IF AnyIn(question_lower, Keywords.ospf) THEN "ospf_changes"
    ELSE IF AnyIn(question_lower, Keywords.route) THEN "routing_changes"
    ELSE IF AnyIn(question_lower, Keywords.error) THEN "errors"
    ELSE IF AnyIn(question_lower, Keywords.vlan) THEN "vlan_changes"
    ELSE IF AnyIn(question_lower, Keywords.config) THEN "config_changes"
    ELSE IF AnyIn(question_lower, Keywords.change) THEN "general_diff"
    ELSE "search"

\* LogQueryEngine(device_logs, device_diffs).query(question); order is the
\* order the interpreter iterates a set of strings in
query(device_logs, device_diffs, question, order) ==
    CASE QueryTypeOf(Lower(question)) = "interface_down"   -> find_interfaces_down(device_logs)
      [] QueryTypeOf(Lower(question)) = "interface_up"     -> find_interfaces_up(device_logs)
      [] QueryTypeOf(Lower(question)) = "interface_status" ->
            find_interface_changes(device_logs, order)
      [] QueryTypeOf(Lower(question)) = "bgp_changes"      -> find_bgp_changes(device_logs)
      [] QueryTypeOf(Lower(question)) = "ospf_changes"     -> find_ospf_changes(device_logs)
      [] QueryTypeOf(Lower(question)) = "routing_changes"  -> find_routing_changes(device_diffs)
      [] QueryTypeOf(Lower(question)) = "errors"           -> find_errors(device_logs)
      [] QueryTypeOf(Lower(question)) = "vlan_changes"     -> find_vlan_changes(device_logs)
      [] QueryTypeOf(Lower(question)) = "config_changes"   -> find_config_changes(device_diffs)
      [] QueryTypeOf(Lower(question)) = "general_diff"     -> get_change_summary(device_diffs)
      [] QueryTypeOf(Lower(question)) = "search"           -> search_logs(device_logs, question)


(***************************************************************************)
(* Query model: one call of LogQueryEngine.query, as chat_query makes it   *)
(* on a session's device_logs and device_diffs.                            *)
(***************************************************************************)
\* words of a question
MaxWords == 2
\* rows of a table in a capture
MaxRows == 2

Words == <<<<"i", "n", "t", "e", "r", "f", "a", "c", "e">>, <<"s", "u", "p", "p", "o", "r", "t">>, <<"d", "o", "w", "n">>, <<"f", "a", "i", "l", "e", "d">>, <<"s", "t", "a", "r", "t", "u", "p">>, <<"b", "g", "p">>,
           <<"o", "s", "p", "f">>, <<"r", "o", "u", "t", "i", "n", "g">>, <<"p", "r", "o", "t", "o", "c", "o", "l">>, <<"r", "o", "u", "t", "e">>, <<"e", "r", "r", "o", "r">>, <<"v", "l", "a", "n">>,
           <<"c", "o", "n", "f", "i", "g">>, <<"c", "h", "a", "n", "g", "e">>, <<"h", "e", "l", "l", "o">>, <<"P", "e", "e", "r">>>>

\* the questions of up to MaxWords words, a space between two
Questions ==
    LET RECURSIVE Join(_)
        Join(ws) == IF ws = <<>> THEN <<>>
                    ELSE IF Len(ws) = 1 THEN Head(ws)
                    ELSE Head(ws) \o <<" ">> \o Join(Tail(ws))
    IN  {Join([i \in 1..Len(w) |-> Words[w[i]]]) :
            w \in UNION {[1..n -> 1..Len(Words)] : n \in 0..MaxWords}}

\* a question for each finder
Ask ==
    [down   |-> <<"w", "h", "a", "t", " ", "i", "n", "t", "e", "r", "f", "a", "c", "e", "s", " ", "w", "e", "n", "t", " ", "d", "o", "w", "n", "?">>,
     up     |-> <<"w", "h", "i", "c", "h", " ", "p", "o", "r", "t", "s", " ", "c", "a", "m", "e", " ", "u", "p">>,
     status |-> <<"i", "n", "t", "e", "r", "f", "a", "c", "e", " ", "s", "t", "a", "t", "u", "s">>,
     bgp    |-> <<"b", "g", "p">>,
     ospf   |-> <<"o", "s", "p", "f">>,
     vlan   |-> <<"v", "l", "a", "n">>,
     errors |-> <<"a", "n", "y", " ", "e", "r", "r", "o", "r", "s", "?">>,
     route  |-> <<"r", "o", "u", "t", "e">>,
     config |-> <<"c", "o", "n", "f", "i", "g">>,
     change |-> <<"w", "h", "a", "t", " ", "c", "h", "a", "n", "g", "e", "d">>,
     text   |-> <<" ", "e", "t", "h", "e", "r", "n", "e", "t", " ">>,
     show   |-> <<"S", "h", "o", "w">>,
     empty  |-> <<>>]

CommandName ==
    [brief   |-> <<"s", "h", "o", "w", " ", "i", "p", " ", "i", "n", "t", "e", "r", "f", "a", "c", "e", " ", "b", "r", "i", "e", "f">>,
     bgp     |-> <<"s", "h", "o", "w", " ", "i", "p", " ", "b", "g", "p", " ", "s", "u", "m", "m", "a", "r", "y">>,
     ospf    |-> <<"s", "h", "o", "w", " ", "i", "p", " ", "o", "s", "p", "f", " ", "n", "e", "i", "g", "h", "b", "o", "r">>,
     vlan    |-> <<"s", "h", "o", "w", " ", "v", "l", "a", "n", " ", "b", "r", "i", "e", "f">>,
     logging |-> <<"s", "h", "o", "w", " ", "l", "o", "g", "g", "i", "n", "g">>,
     route   |-> <<"s", "h", "o", "w", " ", "i", "p", " ", "r", "o", "u", "t", "e">>,
     config  |-> <<"s", "h", "o", "w", " ", "r", "u", "n", "n", "i", "n", "g", "-", "c", "o", "n", "f", "i", "g">>]

\* the rows a capture may hold for each key of a table: none, or one of its
\* states
Rows ==
    [port |-> <<{<<>>,
                 <<"G", "i", "g", "a", "b", "i", "t", "E", "t", "h", "e", "r", "n", "e", "t", "0", "/", "1", " ", " ", "1", ".", "1", ".", "1", ".", "1", " ", " ", "Y", "E", "S", " ", " ", "N", "V", "R", "A", "M", " ", " ", "u", "p", " ", " ", "u", "p", "\n">>,
                 <<"G", "i", "g", "a", "b", "i", "t", "E", "t", "h", "e", "r", "n", "e", "t", "0", "/", "1", " ", " ", "1", ".", "1", ".", "1", ".", "1", " ", " ", "Y", "E", "S", " ", " ", "N", "V", "R", "A", "M", " ", " ", "d", "o", "w", "n", " ", " ", "d", "o", "w", "n", "\n">>},
                {<<>>,
                 <<"G", "i", "0", "/", "2", " ", " ", "c", "o", "n", "n", "e", "c", "t", "e", "d", " ", " ", "1", "\n">>,
                 <<"G", "i", "0", "/", "2", " ", "i", "s", " ", "a", "d", "m", "i", "n", "i", "s", "t", "r", "a", "t", "i", "v", "e", "l", "y", " ", "d", "o", "w", "n", ",", " ", "l", "i", "n", "e", " ", "p", "r", "o", "t", "o", "c", "o", "l", " ", "i", "s", " ", "d", "o", "w", "n", "\n">>},
                {<<>>,
                 <<"E", "t", "h", "e", "r", "n", "e", "t", "0", "/", "3", " ", "u", "n", "a", "s", "s", "i", "g", "n", "e", "d", " ", "Y", "E", "S", " ", "u", "n", "s", "e", "t", " ", "a", "d", "m", "i", "n", "i", "s", "t", "r", "a", "t", "i", "v", "e", "l", "y", " ", "d", "o", "w", "n", " ", "d", "o", "w", "n", "\n">>,
                 <<"E", "t", "h", "e", "r", "n", "e", "t", "0", "/", "3", " ", "u", "p", "l", "i", "n", "k", " ", "n", "o", "t", "c", "o", "n", "n", "e", "c", "t", " ", "1", "\n">>}>>,
     bgp  |-> <<{<<>>,
                 <<"1", "0", ".", "0", ".", "0", ".", "1", " ", "4", " ", "6", "5", "0", "0", "1", " ", "1", "0", " ", "1", "0", " ", "1", " ", "0", " ", "0", " ", "1", "d", " ", "E", "s", "t", "a", "b", "l", "i", "s", "h", "e", "d", "\n">>,
                 <<"1", "0", ".", "0", ".", "0", ".", "1", " ", "4", " ", "6", "5", "0", "0", "1", " ", "1", "0", " ", "1", "0", " ", "1", " ", "0", " ", "0", " ", "1", "d", " ", "I", "d", "l", "e", "\n">>},
                {<<>>,
                 <<"1", "0", ".", "0", ".", "0", ".", "2", " ", "4", " ", "6", "5", "0", "0", "2", " ", "1", "0", " ", "1", "0", " ", "1", " ", "0", " ", "0", " ", "1", "d", " ", "E", "s", "t", "a", "b", "l", "i", "s", "h", "e", "d", "\n">>,
                 <<"1", "0", ".", "0", ".", "0", ".", "2", " ", "4", " ", "6", "5", "0", "0", "2", " ", "1", "0", " ", "1", "0", " ", "1", " ", "0", " ", "0", " ", "1", "d", " ", "I", "d", "l", "e", "\n">>},
                {<<>>,
                 <<"1", "0", ".", "0", ".", "0", ".", "3", " ", "4", " ", "6", "5", "0", "0", "3", " ", "1", "0", " ", "1", "0", " ", "1", " ", "0", " ", "0", " ", "1", "d", " ", "E", "s", "t", "a", "b", "l", "i", "s", "h", "e", "d", "\n">>,
                 <<"1", "0", ".", "0", ".", "0", ".", "3", " ", "4", " ", "6", "5", "0", "0", "3", " ", "1", "0", " ", "1", "0", " ", "1", " ", "0", " ", "0", " ", "1", "d", " ", "I", "d", "l", "e", "\n">>}>>,
     ospf |-> <<{<<>>,
                 <<"1", "0", ".", "0", ".", "0", ".", "1", " ", "1", " ", "F", "U", "L", "L", "/", "D", "R", " ", "0", "0", ":", "0", "0", ":", "3", "0", " ", "1", "0", ".", "1", ".", "1", ".", "1", " ", "G", "i", "0", "/", "1", "\n">>,
                 <<"1", "0", ".", "0", ".", "0", ".", "1", " ", "1", " ", "I", "N", "I", "T", "/", "D", "R", "O", "T", "H", "E", "R", " ", "0", "0", ":", "0", "0", ":", "3", "0", " ", "1", "0", ".", "1", ".", "1", ".", "1", " ", "G", "i", "0", "/", "1", "\n">>},
                {<<>>,
                 <<"1", "0", ".", "0", ".", "0", ".", "2", " ", "1", " ", "F", "U", "L", "L", "/", "B", "D", "R", " ", "0", "0", ":", "0", "0", ":", "3", "0", " ", "1", "0", ".", "1", ".", "1", ".", "2", " ", "G", "i", "0", "/", "2", "\n">>,
                 <<"1", "0", ".", "0", ".", "0", ".", "2", " ", "1", " ", "2", "W", "A", "Y", "/", "D", "R", "O", "T", "H", "E", "R", " ", "0", "0", ":", "0", "0", ":", "3", "0", " ", "1", "0", ".", "1", ".", "1", ".", "2", " ", "G", "i", "0", "/", "2", "\n">>},
                {<<>>,
                 <<"1", "0", ".", "0", ".", "0", ".", "3", " ", "1", " ", "F", "U", "L", "L", "/", "D", "R", " ", "0", "0", ":", "0", "0", ":", "3", "0", " ", "1", "0", ".", "1", ".", "1", ".", "3", " ", "G", "i", "0", "/", "3", "\n">>,
                 <<"1", "0", ".", "0", ".", "0", ".", "3", " ", "1", " ", "D", "O", "W", "N", "/", "D", "R", " ", "0", "0", ":", "0", "0", ":", "3", "0", " ", "1", "0", ".", "1", ".", "1", ".", "3", " ", "G", "i", "0", "/", "3", "\n">>}>>,
     vlan |-> <<{<<>>, <<"1", "0", " ", "u", "s", "e", "r", "s", " ", "a", "c", "t", "i", "v", "e", "\n">>, <<"1", "0", " ", "u", "s", "e", "r", "s", " ", "s", "u", "s", "p", "e", "n", "d", "e", "d", "\n">>},
                {<<>>, <<"2", "0", " ", "v", "o", "i", "c", "e", " ", "a", "c", "t", "i", "v", "e", "\n">>, <<"2", "0", " ", "v", "o", "i", "c", "e", " ", "s", "u", "s", "p", "e", "n", "d", "e", "d", "\n">>},
                {<<>>, <<"3", "0", " ", "m", "g", "m", "t", " ", "a", "c", "t", "i", "v", "e", "\n">>, <<"3", "0", " ", "m", "g", "m", "t", " ", "s", "u", "s", "p", "e", "n", "d", "e", "d", "\n">>}>>]

\* the tables of a capture: a row, or none, for each of the first MaxRows keys
Tables(rows) ==
    {Concat(t) : t \in {f \in [1..Min(MaxRows, Len(rows)) ->
                                 UNION {rows[k] : k \in 1..Min(MaxRows, Len(rows))}] :
                            \A k \in 1..Min(MaxRows, Len(rows)) : f[k] \in rows[k]}}

\* the table of six ports in one state
SixPorts(state) ==
    Concat([i \in 1..6 |-> <<"G", "i", "0", "/", (<<"1", "2", "3", "4", "5", "6">>)[i],
                             " ", " ">> \o state \o <<" ", "1", "\n">>])

\* the logs of up to MaxLines lines, one of six system messages, and one of
\* one more line than search_logs keeps matches
LogTexts ==
    {Concat(ls) :
        ls \in UNION {[1..n -> {<<"E", "t", "h", "e", "r", "n", "e", "t", "0", "/", "1", " ", "i", "s", " ", "u", "p", ",", " ", "0", " ", "i", "n", "p", "u", "t", " ", "e", "r", "r", "o", "r", "s", ",", " ", "0", " ", "o", "u", "t", "p", "u", "t", " ", "e", "r", "r", "o", "r", "s", "\n">>, <<"%", "L", "I", "N", "K", "-", "3", "-", "U", "P", "D", "O", "W", "N", ":", " ", "G", "i", "0", "/", "1", " ", "d", "o", "w", "n", "\n">>, <<"%", "S", "Y", "S", "-", "5", "-", "C", "O", "N", "F", "I", "G", "_", "I", ":", " ", "o", "k", "\n">>, <<"l", "i", "n", "k", " ", "f", "a", "i", "l", "u", "r", "e", "\n">>, <<"a", "l", "l", " ", "g", "o", "o", "d", "\n">>}] :
                         n \in 0..MaxLines}}
    \cup {Concat([i \in 1..6 |-> <<"%", "L", "-", "3", "-", "U", ":", " ">>
                                  \o <<(<<"1", "2", "3", "4", "5", "6">>)[i], "\n">>])}
    \cup {Concat([i \in 1..21 |-> <<"a", "\n">>])}

\* the device map of one device with both captures, one command in each
OneDevice(command, pre_output, post_output) ==
    <<[hostname |-> "R1",
       pre      |-> DeviceLog("R1", "CHG1", <<Cmd(command, pre_output)>>),
       post     |-> DeviceLog("R1", "CHG1", <<Cmd(command, post_output)>>)]>>

\* the captures a device of a two-device map may have
SomeCaptures(hostname) ==
    {[hostname |-> hostname, pre |-> x, post |-> y] :
        x \in {NoLog} \cup {DeviceLog(hostname, "CHG1", <<Cmd(CommandName.brief, r)>>) :
                              r \in {<<"G", "i", "g", "a", "b", "i", "t", "E", "t", "h", "e", "r", "n", "e", "t", "0", "/", "1", " ", " ", "1", ".", "1", ".", "1", ".", "1", " ", " ", "Y", "E", "S", " ", " ", "N", "V", "R", "A", "M", " ", " ", "u", "p", " ", " ", "u", "p", "\n">>}},
        y \in {NoLog} \cup {DeviceLog(hostname, "CHG1", <<Cmd(CommandName.brief, r)>>) :
                              r \in Rows.port[1] \ {<<>>}}}

\* the calls of query: every question on the captures of one interface going
\* down; the interface questions on every pair of port tables and on six
\* ports; the table questions on every pair of tables; the error and search
\* questions on every log; the diff questions on two commands; four questions
\* on two devices
QueryCalls ==
    LET Call(question, device_logs, order) ==
            [pc |-> "call", fn |-> "query", question |-> question,
             device_logs |-> device_logs, order |-> order]
    IN  {Call(q, OneDevice(CommandName.brief,
                    <<"G", "i", "g", "a", "b", "i", "t", "E", "t", "h", "e", "r", "n", "e", "t", "0", "/", "1", " ", " ", "1", ".", "1", ".", "1", ".", "1", " ", " ", "Y", "E", "S", " ", " ", "N", "V", "R", "A", "M", " ", " ", "u", "p", " ", " ", "u", "p", "\n">>,
                    <<"G", "i", "g", "a", "b", "i", "t", "E", "t", "h", "e", "r", "n", "e", "t", "0", "/", "1", " ", " ", "1", ".", "1", ".", "1", ".", "1", " ", " ", "Y", "E", "S", " ", " ", "N", "V", "R", "A", "M", " ", " ", "d", "o", "w", "n", " ", " ", "d", "o", "w", "n", "\n">>), "forward") :
            q \in Questions}
        \cup {Call(q, OneDevice(CommandName.brief, x, y), "forward") :
                q \in {Ask.down, Ask.up}, x \in Tables(Rows.port), y \in Tables(Rows.port)}
        \cup {Call(Ask.status, OneDevice(CommandName.brief, x, y), o) :
                x \in Tables(Rows.port), y \in Tables(Rows.port),
                o \in {"forward", "backward"}}
        \cup {Call(q, OneDevice(CommandName.brief, SixPorts(x), SixPorts(y)), o) :
                q \in {Ask.down, Ask.status}, x \in {<<>>, <<"c", "o", "n", "n", "e", "c", "t", "e", "d">>},
                y \in {<<"n", "o", "t", "c", "o", "n", "n", "e", "c", "t">>}, o \in {"forward", "backward"}}
        \cup {Call(Ask[k], OneDevice(CommandName[k], x, y), "forward") :
                k \in {"bgp"}, x \in Tables(Rows.bgp), y \in Tables(Rows.bgp)}
        \cup {Call(Ask[k], OneDevice(CommandName[k], x, y), "forward") :
                k \in {"ospf"}, x \in Tables(Rows.ospf), y \in Tables(Rows.ospf)}
        \cup {Call(Ask[k], OneDevice(CommandName[k], x, y), "forward") :
                k \in {"vlan"}, x \in Tables(Rows.vlan), y \in Tables(Rows.vlan)}
        \cup {Call(q, OneDevice(CommandName.logging, TextA, y), "forward") :
                q \in {Ask.errors, Ask.text, Ask.empty, Ask.show}, y \in LogTexts}
        \cup {Call(q, <<[hostname |-> "R1",
                         pre  |-> DeviceLog("R1", "CHG1",
                                    <<Cmd(CommandName.route, TextA),
                                      Cmd(CommandName.config, TextA)>>),
                         post |-> DeviceLog("R1", "CHG1",
                                    <<Cmd(CommandName.route, x),
                                      Cmd(CommandName.config, y)>>)]>>, "forward") :
                q \in {Ask.route, Ask.config, Ask.change},
                x \in {TextA, TextAB}, y \in {TextA, TextAB}}
        \cup {Call(q, <<e1, e2>>, "forward") :
                q \in {Ask.down, Ask.errors, Ask.text, Ask.change},
                e1 \in SomeCaptures("R1"), e2 \in SomeCaptures("R2")}

\* the masking settings bear on a query through device_diffs alone: they are
\* varied for the questions answered from the diffs
InitQuery ==
    /\ settings \in MaskingConfigs
    /\ sessions = <<>>
    /\ heap = <<>>
    /\ now = 0
    /\ next_id = 1
    /\ run \in QueryCalls
    /\ settings.enabled => run.question \in {Ask.route, Ask.config, Ask.change}
    /\ ret = NoRet
    /\ recency = <<>>

\* chat_query, lines 685-686: LogQueryEngine(session.device_logs,
\* session.device_diffs).query(request.question)
Query ==
    /\ run.pc = "call"
    /\ run.fn = "query"
    /\ ret' = query(run.device_logs, DeviceDiffsOf(settings, run.device_logs, "standard"),
                    run.question, run.order)
    /\ run' = [run EXCEPT !.pc = "done"]
    /\ UNCHANGED <<settings, sessions, heap, now, next_id, recency>>

NextQuery == Query

SpecQuery == InitQuery /\ [][NextQuery]_vars


\* the keyword groups of query in the order it tests them, and the intent each
\* stands for
KeywordGroups == <<Keywords.interface, Keywords.bgp, Keywords.ospf, Keywords.route,
      Keywords.error, Keywords.vlan, Keywords.config, Keywords.change>>

GroupIntents == <<"interface", "bgp_changes", "ospf_changes", "routing_changes", "errors",
                  "vlan_changes", "config_changes", "general_diff">>

\* the groups with a keyword occurring in the text
GroupsHit(text) == {g \in 1..Len(KeywordGroups) : AnyIn(text, KeywordGroups[g])}

FirstHit(text) == CHOOSE g \in GroupsHit(text) : \A h \in GroupsHit(text) : g <= h

\* C15: the query_type returned is that of the first keyword group, in the
\* fixed order, with a keyword occurring in the lower-cased question (for the
\* interface group: down-words before up-words before plain status), whatever
\* keywords of later groups occur; with no group hit it is the free-text search
C15_FirstMatchDispatch ==
    Returned("query") =>
        ret.query_type =
            IF GroupsHit(Lower(run.question)) = {} THEN "search"
            ELSE IF FirstHit(Lower(run.question)) = 1
                 THEN IF AnyIn(Lower(run.question), Keywords.down) THEN "interface_down"
                      ELSE IF AnyIn(Lower(run.question), Keywords.up) THEN "interface_up"
                      ELSE "interface_status"
                 ELSE GroupIntents[FirstHit(Lower(run.question))]

\* a question with an error word and a routing word went to the routing finder
C15_Witness ==
    /\ Returned("query")
    /\ GroupsHit(Lower(run.question)) = {4, 5}
    /\ ret.query_type = "routing_changes"


\* the findings the result has for a device, none when it is not in details
FindingsFor(hostname) ==
    IF \E d \in 1..Len(ret.details) : ret.details[d].hostname = hostname
    THEN ret.details[CHOOSE d \in 1..Len(ret.details) :
                        ret.details[d].hostname = hostname].findings
    ELSE <<>>

\* the devices of the call that have both captures
BothCaptured == {i \in 1..Len(run.device_logs) :
                    run.device_logs[i].pre.present /\ run.device_logs[i].post.present}

\* C16: every change find_interface_changes reports is classified NEW when
\* the interface is absent from the pre capture, REMOVED when it is absent
\* from the post capture, and otherwise CAME_UP for down-like to up-like,
\* WENT_DOWN for up-like to down-like, and MODIFIED for the rest
C16_ClassifiedByPresence ==
    (Returned("query") /\ ret.query_type = "interface_status") =>
        \A i \in BothCaptured :
            \A c \in 1..Len(FindingsFor(run.device_logs[i].hostname)) :
                FindingsFor(run.device_logs[i].hostname)[c].change_type =
                    IF ~DictHas(extract_interface_status(run.device_logs[i].pre),
                                FindingsFor(run.device_logs[i].hostname)[c].interface)
                    THEN "NEW"
                    ELSE IF ~DictHas(extract_interface_status(run.device_logs[i].post),
                                     FindingsFor(run.device_logs[i].hostname)[c].interface)
                    THEN "REMOVED"
                    ELSE IF is_down(FindingsFor(run.device_logs[i].hostname)[c].pre_status)
                            /\ is_up(FindingsFor(run.device_logs[i].hostname)[c].post_status)
                    THEN "CAME_UP"
                    ELSE IF is_up(FindingsFor(run.device_logs[i].hostname)[c].pre_status)
                            /\ is_down(FindingsFor(run.device_logs[i].hostname)[c].post_status)
                    THEN "WENT_DOWN"
                    ELSE "MODIFIED"

\* scenario A: R1's show ip interface brief lists GigabitEthernet0/1 as up/up
\* before and down/down after, and the question is which interfaces went down
ScenarioA ==
    /\ Returned("query")
    /\ run.question = Ask.down
    /\ run.device_logs = OneDevice(CommandName.brief,
            <<"G", "i", "g", "a", "b", "i", "t", "E", "t", "h", "e", "r", "n", "e", "t", "0", "/", "1", " ", " ", "1", ".", "1", ".", "1", ".", "1", " ", " ", "Y", "E", "S", " ", " ", "N", "V", "R", "A", "M", " ", " ", "u", "p", " ", " ", "u", "p", "\n">>,
            <<"G", "i", "g", "a", "b", "i", "t", "E", "t", "h", "e", "r", "n", "e", "t", "0", "/", "1", " ", " ", "1", ".", "1", ".", "1", ".", "1", " ", " ", "Y", "E", "S", " ", " ", "N", "V", "R", "A", "M", " ", " ", "d", "o", "w", "n", " ", " ", "d", "o", "w", "n", "\n">>)

\* C17 (as the code has it): in scenario A the result, of type interface_down,
\* has exactly one finding, for R1 and GigabitEthernet0/1, with the statuses
\* up/up before and down/down after, which is the transition WENT_DOWN; the
\* finding itself has the interface and the two statuses and no other field
C17_OneFindingWithStatuses ==
    ScenarioA =>
        /\ ret.query_type = "interface_down"
        /\ ret.total_findings = 1
        /\ ret.devices_affected = <<"R1">>
        /\ ret.details = <<[hostname |-> "R1", findings |->
                <<[interface   |-> <<"G", "i", "g", "a", "b", "i", "t", "E", "t", "h", "e", "r", "n", "e", "t", "0", "/", "1">>,
                   pre_status  |-> <<"u", "p", "/", "u", "p">>,
                   post_status |-> <<"d", "o", "w", "n", "/", "d", "o", "w", "n">>]>>]>>
        /\ classify_change(ret.details[1].findings[1].pre_status,
                           ret.details[1].findings[1].post_status) = "WENT_DOWN"

\* scenario A was asked and answered with one finding
C17_Witness == ScenarioA /\ ret.total_findings = 1

\* C17 as stated: the one finding of scenario A carries the transition
\* WENT_DOWN
C17_FindingCarriesTransition ==
    ScenarioA =>
        /\ ret.total_findings = 1
        /\ Len(ret.details) = 1 /\ Len(ret.details[1].findings) = 1
        /\ ret.details[1].hostname = "R1"
        /\ ret.details[1].findings[1].interface = <<"G", "i", "g", "a", "b", "i", "t", "E", "t", "h", "e", "r", "n", "e", "t", "0", "/", "1">>
        /\ "change_type" \in DOMAIN ret.details[1].findings[1]
        /\ ret.details[1].findings[1].change_type = "WENT_DOWN"

\* the findings of a list that are for a key
ChangesOf(findings, key) ==
    SelectSeq(findings, LAMBDA f : f.neighbor = key)

\* C18: for BGP and OSPF, every neighbor of a device with both captures has at
\* most one finding: NEW iff it is extracted from post only, REMOVED iff from
\* pre only, STATE_CHANGE iff from both with different states, none iff from
\* both with the same state; and a VLAN finding is NEW or REMOVED
C18_DeltaRule ==
    Returned("query") =>
        /\ ret.query_type \in {"bgp_changes", "ospf_changes"} =>
            \A i \in BothCaptured :
                LET kind == IF ret.query_type = "bgp_changes" THEN "bgp" ELSE "ospf"
                    pre  == extract_table(kind, run.device_logs[i].pre)
                    post == extract_table(kind, run.device_logs[i].post)
                    fs   == FindingsFor(run.device_logs[i].hostname)
                    Has(key, change) == \E n \in 1..Len(fs) :
                                            fs[n].neighbor = key /\ fs[n].change = change
                IN  \A key \in {pre[n].key : n \in 1..Len(pre)}
                               \cup {post[n].key : n \in 1..Len(post)}
                               \cup {fs[n].neighbor : n \in 1..Len(fs)} :
                        /\ Len(ChangesOf(fs, key)) <= 1
                        /\ Has(key, "NEW") <=> (~DictHas(pre, key) /\ DictHas(post, key))
                        /\ Has(key, "REMOVED") <=> (DictHas(pre, key) /\ ~DictHas(post, key))
                        /\ Has(key, "STATE_CHANGE") <=>
                              /\ DictHas(pre, key) /\ DictHas(post, key)
                              /\ DictGet(pre, key, <<>>).state # DictGet(post, key, <<>>).state
                        /\ ChangesOf(fs, key) = <<>> <=>
                              /\ DictHas(pre, key) /\ DictHas(post, key)
                              /\ DictGet(pre, key, <<>>).state = DictGet(post, key, <<>>).state
        /\ ret.query_type = "vlan_changes" =>
            \A d \in 1..Len(ret.details) : \A n \in 1..Len(ret.details[d].findings) :
                ret.details[d].findings[n].change \in {"NEW", "REMOVED"}

\* scenario D: the BGP neighbor 10.0.0.1 is Established before and absent
\* after, and it is reported REMOVED
C18_Witness ==
    /\ Returned("query")
    /\ ret.query_type = "bgp_changes"
    /\ run.device_logs[1].pre.commands[1].output
          = <<"1", "0", ".", "0", ".", "0", ".", "1", " ", "4", " ", "6", "5", "0", "0", "1", " ", "1", "0", " ", "1", "0", " ", "1", " ", "0", " ", "0", " ", "1", "d", " ", "E", "s", "t", "a", "b", "l", "i", "s", "h", "e", "d", "\n">>
    /\ run.device_logs[1].post.commands[1].output = <<>>
    /\ ret.details[1].findings = <<[neighbor |-> <<"1", "0", ".", "0", ".", "0", ".", "1">>, change |-> "REMOVED",
                                    as |-> <<"6", "5", "0", "0", "1">>]>>

\* the lines of a capture that find_errors is to report: those an error
\* pattern matches and no false-positive phrase is in, as (command, line)
QualifyingLines(device_log) ==
    LET RECURSIVE Over(_)
        Over(commands) ==
            IF commands = <<>> THEN <<>>
            ELSE LET lines == SelectSeq(SplitNl(Head(commands).output), LAMBDA line :
                                 /\ ERROR_PATTERNS(1, line) \/ ERROR_PATTERNS(2, line)
                                 /\ ~is_false_positive_error(Strip(line)))
                 IN  [n \in 1..Len(lines) |->
                        [command |-> Head(commands).command, error_line |-> Strip(lines[n])]]
                     \o Over(Tail(commands))
    IN  Over(device_log.commands)

\* C19: find_errors reports, for the post capture of a device, the lines an
\* error pattern matches and no false-positive phrase is in, and each of them
\* once
C19_QualifyingLinesOnce ==
    (Returned("query") /\ ret.query_type = "errors") =>
        \A i \in 1..Len(run.device_logs) :
            run.device_logs[i].post.present =>
                /\ \A n \in 1..Len(FindingsFor(run.device_logs[i].hostname)) :
                      \E m \in 1..Len(QualifyingLines(run.device_logs[i].post)) :
                          FindingsFor(run.device_logs[i].hostname)[n]
                            = QualifyingLines(run.device_logs[i].post)[m]
                /\ FindingsFor(run.device_logs[i].hostname)
                      = QualifyingLines(run.device_logs[i].post)

\* the most findings the summary is to list for a device
SummaryLimit(query_type) ==
    CASE query_type \in {"interface_status", "interface_down", "interface_up",
                         "bgp_changes", "ospf_changes"} -> 5
      [] query_type = "errors" -> 10
      [] query_type = "search" -> 3
      [] OTHER -> 0

\* the lines of a kind the summary has for a device
SummaryLinesOf(hostname, kind) ==
    SelectSeq(ret.summary, LAMBDA l : l.kind = kind /\ l.hostname = hostname)

\* C20: a summary lists at most the fixed number of findings for a device (5
\* for interface, BGP and OSPF results, 10 for errors, 3 for a search, which
\* names at most 5 devices), and when it lists fewer than the device has, it
\* has the line "... and N more" with the number left out
C20_TruncatedWithMore ==
    (Returned("query") /\ SummaryLimit(ret.query_type) > 0) =>
        /\ ret.query_type = "search" =>
              Len(SelectSeq(ret.summary, LAMBDA l : l.kind = "device")) <= 5
        /\ \A d \in 1..Len(ret.details) :
              /\ Len(SummaryLinesOf(ret.details[d].hostname, "finding"))
                    <= SummaryLimit(ret.query_type)
              /\ Len(SummaryLinesOf(ret.details[d].hostname, "device")) = 1
                 /\ Len(SummaryLinesOf(ret.details[d].hostname, "finding"))
                       < Len(ret.details[d].findings)
                 => SummaryLinesOf(ret.details[d].hostname, "more")
                       = <<[kind |-> "more", hostname |-> ret.details[d].hostname,
                            n |-> Len(ret.details[d].findings)
                                  - Len(SummaryLinesOf(ret.details[d].hostname, "finding"))]>>

\* the other order the interpreter may iterate the set of interface names in
OtherOrder(order) == IF order = "forward" THEN "backward" ELSE "forward"

\* C21: the result of a query is the same whatever order the set of interface
\* names is iterated in: the same captures and the same question give the
\* same summary, the same affected devices and the same details
C21_OrderIndependent ==
    Returned("query") =>
        ret = query(run.device_logs,
                    DeviceDiffsOf(settings, run.device_logs, "standard"),
                    run.question, OtherOrder(run.order))

\* the search text occurs, whatever the case of the letters, in a command name
\* or an output line of a capture the device has
Occurs(text, e) ==
    \E log \in {l \in {e.pre, e.post} : l.present} :
        \E c \in 1..Len(log.commands) :
            \/ Contains(Lower(log.commands[c].command), Lower(text))
            \/ \E n \in 1..Len(SplitNl(log.commands[c].output)) :
                  Contains(Lower(SplitNl(log.commands[c].output)[n]), Lower(text))

\* C22: search_logs reports every device in which the search text occurs,
\* case-insensitively and as a literal, in a command name or an output line
\* of its pre or post capture, and keeps at most 20 matches for a device
C22_SearchReportsOccurrences ==
    (Returned("query") /\ ret.query_type = "search") =>
        /\ \A i \in 1..Len(run.device_logs) :
              Occurs(run.question, run.device_logs[i]) =>
                  \E d \in 1..Len(ret.devices_affected) :
                      ret.devices_affected[d] = run.device_logs[i].hostname
        /\ \A d \in 1..Len(ret.details) : Len(ret.details[d].findings) <= 20

\* what the same question returns for one device of the map alone
Alone(e) ==
    query(<<e>>, DeviceDiffsOf(settings, <<e>>, "standard"), run.question, run.order)

\* the devices of the map that have a finding, in the order of the map
WithFindings == SelectSeq(run.device_logs, LAMBDA e : Alone(e).total_findings > 0)

MaxFileLines == 3

\* open(file_path, 'r').readlines(), lines 100-101: a file opened as text has
\* "\r\n" and "\r" read as "\n"; a line keeps its "\n", and the last line is
\* what follows the last line end, when there is something
readlines(content) ==
    LET RECURSIVE Translated(_)
        Translated(s) ==
            IF s = <<>> THEN <<>>
            ELSE IF Head(s) = "\r"
            THEN <<"\n">> \o Translated(IF Len(s) >= 2 /\ s[2] = "\n"
                                        THEN Tail(Tail(s)) ELSE Tail(s))
            ELSE <<Head(s)>> \o Translated(Tail(s))
        RECURSIVE Split(_, _)
        Split(s, line) ==
            IF s = <<>> THEN (IF line = <<>> THEN <<>> ELSE <<line>>)
            ELSE IF Head(s) = "\n" THEN <<Append(line, "\n")>> \o Split(Tail(s), <<>>)
            ELSE Split(Tail(s), Append(line, Head(s)))
    IN  Split(Translated(content), <<>>)

\* LogParser.COMMAND_PATTERN.match(text), ^command:\s*(.+)$ with IGNORECASE:
\* text begins with the word, something follows it on the line, and the group
\* is what follows without the white space before it (a character at least)
COMMAND_PATTERN(text) ==
    LET word == <<"c", "o", "m", "m", "a", "n", "d", ":">>
        rest == SubSeq(text, Len(word) + 1, Len(text))
        line == IF rest # <<>> /\ rest[Len(rest)] = "\n"
                THEN SubSeq(rest, 1, Len(rest) - 1) ELSE rest
        RECURSIVE LStrip(_)
        LStrip(t) == IF Len(t) > 1 /\ IsSpace(Head(t)) THEN LStrip(Tail(t)) ELSE t
    IN  IF /\ Len(text) >= Len(word)
           /\ Lower(SubSeq(text, 1, Len(word))) = word
           /\ line # <<>>
           /\ \A i \in 1..Len(line) : line[i] # "\n"
        THEN [matched |-> TRUE, group |-> LStrip(line)]
        ELSE [matched |-> FALSE, group |-> <<>>]

\* LogParser.parse_file, lines 95-138: the DeviceLog of a file's content
parse_file(content, hostname, change_number) ==
    LET lines == readlines(content)
        CommandOutput(command, output, line_start, line_end) ==
            [command |-> command, output |-> output,
             line_start |-> line_start, line_end |-> line_end]
        \* current_command is None while current.some is FALSE
        RECURSIVE Scan(_, _, _, _, _)
        Scan(line_num, commands, current, current_output_lines, line_start) ==
            IF line_num > Len(lines)
            THEN IF current.some
                 THEN Append(commands, CommandOutput(current.command,
                                  Concat(current_output_lines), line_start, Len(lines)))
                 ELSE commands
            ELSE IF COMMAND_PATTERN(Strip(lines[line_num])).matched
            THEN Scan(line_num + 1,
                      IF current.some
                      THEN Append(commands, CommandOutput(current.command,
                                      Concat(current_output_lines), line_start, line_num - 1))
                      ELSE commands,
                      [some |-> TRUE,
                       command |-> Strip(COMMAND_PATTERN(Strip(lines[line_num])).group)],
                      <<>>, line_num)
            ELSE Scan(line_num + 1, commands, current,
                      IF current.some THEN Append(current_output_lines, lines[line_num])
                      ELSE current_output_lines,
                      line_start)
    IN  DeviceLog(hostname, change_number,
                  Scan(1, <<>>, [some |-> FALSE, command |-> <<>>], <<>>, 0))

\* a parser that has parsed nothing and is given a file of up to MaxFileLines
\* pieces: a marker, a marker in other letters and with spaces around it, the
\* word without a name, or other text, each ended by "\n", "\r\n", "\r" or
\* not at all
InitParse ==
    /\ settings \in MaskingConfigs
    /\ ~settings.enabled
    /\ sessions = <<>>
    /\ heap = <<>>
    /\ now = 0
    /\ next_id = 1
    /\ run \in {[pc |-> "call", fn |-> "parse_file", content |-> Concat(pieces),
                 hostname |-> "R1", change_number |-> "CHG1", log_type |-> "pre",
                 parsed_logs |-> <<>>] :
                pieces \in UNION {[1..n -> {text \o end :
                                              text \in {<<"c", "o", "m", "m", "a", "n", "d", ":", " ", "a">>, <<" ", "C", "o", "m", "m", "a", "n", "d", ":", "b", " ">>, <<"c", "o", "m", "m", "a", "n", "d", ":">>, <<"x">>},
                                              end \in {<<"\n">>, <<"\r", "\n">>, <<"\r">>, <<>>}}] :
                                  n \in 0..MaxFileLines}}
    /\ ret = NoRet
    /\ recency = <<>>

\* parse_file, lines 79-148: the file is parsed and the DeviceLog is cached
\* under the change number and "<hostname>_<log type>"
ParseFile ==
    /\ run.pc = "call"
    /\ run.fn = "parse_file"
    /\ ret' = parse_file(run.content, run.hostname, run.change_number)
    /\ run' = [run EXCEPT !.pc = "done",
                          !.parsed_logs = DictPut(run.parsed_logs,
                                <<run.change_number, run.hostname, run.log_type>>,
                                parse_file(run.content, run.hostname, run.change_number))]
    /\ UNCHANGED <<settings, sessions, heap, now, next_id, recency>>

NextParse == ParseFile

SpecParse == InitParse /\ [][NextParse]_vars

\* the lines of a file as the file has them: each with the line end it has
FileLines(content) ==
    LET RECURSIVE Split(_, _)
        Split(s, line) ==
            IF s = <<>> THEN (IF line = <<>> THEN <<>> ELSE <<line>>)
            ELSE IF Head(s) = "\r" /\ Len(s) >= 2 /\ s[2] = "\n"
            THEN <<line \o <<"\r", "\n">> >> \o Split(Tail(Tail(s)), <<>>)
            ELSE IF Head(s) \in {"\r", "\n"}
            THEN <<Append(line, Head(s))>> \o Split(Tail(s), <<>>)
            ELSE Split(Tail(s), Append(line, Head(s)))
    IN  Split(content, <<>>)

\* a marker line: "command:" in any case and a name, white space around the
\* line ignored
IsMarker(line) ==
    /\ Len(Strip(line)) > 8
    /\ Lower(SubSeq(Strip(line), 1, 8)) = <<"c", "o", "m", "m", "a", "n", "d", ":">>

\* the records are those of the marker lines of lines, in their order, each
\* with the name of its marker, the lines between its marker and the next
\* marker or the end as its output, and the numbers of its first and last line
ParsedFrom(lines, commands) ==
    LET markers == {n \in 1..Len(lines) : IsMarker(lines[n])}
        RECURSIVE Ascending(_)
        Ascending(ns) == IF ns = {} THEN <<>>
                      ELSE LET n == CHOOSE x \in ns : \A y \in ns : x <= y
                           IN  <<n>> \o Ascending(ns \ {n})
        at == Ascending(markers)
        End(k) == IF k = Len(at) THEN Len(lines) ELSE at[k + 1] - 1
    IN  /\ Len(commands) = Len(at)
        /\ \A k \in 1..Len(at) :
              /\ commands[k].command
                    = Strip(SubSeq(Strip(lines[at[k]]), 9, Len(Strip(lines[at[k]]))))
              /\ commands[k].output = Concat(SubSeq(lines, at[k] + 1, End(k)))
              /\ commands[k].line_start = at[k]
              /\ commands[k].line_end = End(k)

\* C24: parse_file yields one record for each marker line of the file, in
\* file order, with the lines between the marker and the next marker or the
\* end of the file as its output, verbatim; lines before the first marker are
\* in no record, a file with no marker gives no record, and each record ends
\* on the line before the next one starts, the last on the last line
C24_RecordsOfMarkers ==
    Returned("parse_file") => ParsedFrom(FileLines(run.content), ret.commands)

\* the same of the lines as readlines gives them
C24_RecordsOfLinesRead ==
    Returned("parse_file") => ParsedFrom(readlines(run.content), ret.commands)

(***************************************************************************)
(* Calls of mask_text on a masker of its own.                              *)
(***************************************************************************)
\* characters of a text given to mask_text
MaxText == 2
\* calls of mask_text on one masker
MaxCalls == 2

\* a masker built from settings.masking (rules given but masking disabled;
\* two categories, one with a pattern that does not compile; and a third
\* whose pattern matches the empty string) and a call of mask_text with a text
\* of up to MaxText characters and a list of categories, or None
InitMask ==
    /\ settings \in
        {[enabled |-> on, rules |-> SubSeq(<<
            [category |-> "timestamps", rules |-> <<
                [pattern |-> <<"1">>, replacement |-> <<"2">>, valid |-> TRUE],
                [pattern |-> <<"(">>, replacement |-> <<>>, valid |-> FALSE],
                [pattern |-> <<"2">>, replacement |-> <<"T">>, valid |-> TRUE]>>],
            [category |-> "counters", rules |-> <<
                [pattern |-> <<"T">>, replacement |-> <<"1", "x">>, valid |-> TRUE]>>],
            [category |-> "uptime", rules |-> <<
                [pattern |-> <<>>, replacement |-> <<"N">>, valid |-> TRUE]>>]>>, 1, n)] :
            on \in BOOLEAN, n \in 2..3}
    /\ sessions = <<>>
    /\ heap = <<>>
    /\ now = 0
    /\ next_id = 1
    /\ run \in {[pc |-> "call", fn |-> "mask_text", masker |-> DataMasker(settings),
                 text |-> text, categories |-> categories, calls |-> 0] :
                text \in UNION {[1..n -> {"1", "2", "T", "x"}] : n \in 0..MaxText},
                categories \in {<<"None">>, <<>>, <<"timestamps">>, <<"uptime">>,
                                <<"counters", "timestamps">>, <<"timestamps", "counters">>,
                                <<"session_ids", "timestamps">>,
                                <<"timestamps", "timestamps">>}}
    /\ ret = NoRet
    /\ recency = <<>>

\* DataMasker.mask_text, lines 57-83, called once more on the same masker
MaskText ==
    /\ run.fn = "mask_text"
    /\ run.calls < MaxCalls
    /\ ret' = [masked_text |-> mask_text(run.masker, run.text, run.categories)]
    /\ run' = [run EXCEPT !.pc = "done", !.calls = run.calls + 1]
    /\ UNCHANGED <<settings, sessions, heap, now, next_id, recency>>

NextMask == MaskText

SpecMask == InitMask /\ [][NextMask]_vars

\* the text after every rule that compiles of every category of the list that
\* settings.masking has (None: all its categories as declared), one category
\* after the other and one rule after the other, each applied to what the rule
\* before it gave
AllRulesApplied(text, categories) ==
    LET declared == [i \in 1..Len(settings.rules) |-> settings.rules[i].category]
        RulesIn(category) ==
            LET at == {i \in 1..Len(settings.rules) : settings.rules[i].category = category}
            IN  IF at = {} THEN <<>>
                ELSE SelectSeq(settings.rules[CHOOSE i \in at : TRUE].rules,
                               LAMBDA r : r.valid)
        RECURSIVE OverRules(_, _)
        OverRules(rules, t) ==
            IF rules = <<>> THEN t ELSE OverRules(Tail(rules), RuleApply(Head(rules), t))
        RECURSIVE OverCategories(_, _)
        OverCategories(cs, t) ==
            IF cs = <<>> THEN t
            ELSE OverCategories(Tail(cs), OverRules(RulesIn(Head(cs)), t))
    IN  OverCategories(IF categories = <<"None">> THEN declared ELSE categories, text)

\* C25 (as the code has it): mask_text returns the text as it is when masking
\* is disabled or the text is empty; otherwise it returns the text after
\* every loaded rule of every selected category, in the order of the list
\* (all loaded categories as declared when the list is omitted, unknown names
\* skipped), each rule applied to the result of the one before; the rules that
\* do not compile are left out and the others kept; and every call gives the
\* same
C25_RulesAppliedUnlessEmpty ==
    Returned("mask_text") =>
        /\ ret.masked_text = IF ~settings.enabled \/ run.text = <<>> THEN run.text
                             ELSE AllRulesApplied(run.text, run.categories)
        /\ settings.enabled =>
              /\ Len(run.masker.rules) = Len(settings.rules)
              /\ \A i \in 1..Len(settings.rules) :
                    /\ run.masker.rules[i].category = settings.rules[i].category
                    /\ run.masker.rules[i].rules
                          = SelectSeq(settings.rules[i].rules, LAMBDA r : r.valid)

\* a second call on a text that the first rule changes and the third rule,
\* after the one that did not compile, changes again
C25_Witness ==
    /\ Returned("mask_text")
    /\ run.calls = 2
    /\ settings.enabled
    /\ run.text = <<"1", "x">>
    /\ run.categories = <<"session_ids", "timestamps">>
    /\ ret.masked_text = <<"T", "x">>

\* C25 as stated: mask_text returns the text as it is when masking is
\* disabled, and otherwise the text after every loaded rule of every selected
\* category
C25_RulesApplied ==
    Returned("mask_text") =>
        ret.masked_text = IF ~settings.enabled THEN run.text
                          ELSE AllRulesApplied(run.text, run.categories)

(***************************************************************************)
(* Command diffs on demand (AnalysisSession.get_command_diff).             *)
(***************************************************************************)
\* AnalysisSession.get_command_diff, lines 103-129: None (some = FALSE) when
\* the command is not in the summaries of the host; else the figures of the
\* summary with the two texts of the first DeviceDiff of the host, "" when
\* that DeviceDiff has no CommandDiff of the command
get_command_diff(session, hostname, command) ==
    LET entries == SelectSeq(session.commands, LAMBDA e : e.hostname = hostname)
        cmds == IF entries = <<>> THEN <<>>
                ELSE SelectSeq(entries[1].commands, LAMBDA c : c.command = command)
        diffs == SelectSeq(session.device_diffs, LAMBDA d : d.hostname = hostname)
        cmd_diffs == IF diffs = <<>> THEN <<>>
                     ELSE SelectSeq(diffs[1].command_diffs, LAMBDA c : c.command = command)
    IN  IF cmds = <<>> THEN [some |-> FALSE]
        ELSE [some          |-> TRUE,
              command       |-> cmds[1].command,
              has_changes   |-> cmds[1].has_changes,
              added_lines   |-> cmds[1].added_lines,
              removed_lines |-> cmds[1].removed_lines,
              pre_output    |-> IF cmd_diffs = <<>> THEN <<>> ELSE cmd_diffs[1].pre_output,
              post_output   |-> IF cmd_diffs = <<>> THEN <<>> ELSE cmd_diffs[1].post_output,
              diff_html     |-> cmds[1].diff_html]

\* the sessions whose analysis request has completed
Analyzed == {id \in DOMAIN heap : id # run.sid}

\* the CommandDiff that the analysis of a session computed for a host and a
\* command: a one-element sequence, or none
CommandDiffOf(session, hostname, command) ==
    LET diffs == SelectSeq(DeviceDiffsOf(settings,
                               DirectoryOf(session.change_number).device_logs, "standard"),
                           LAMBDA d : d.hostname = hostname)
    IN  IF diffs = <<>> THEN <<>>
        ELSE SelectSeq(diffs[1].command_diffs, LAMBDA c : c.command = command)

\* C26: once the analysis request of a session has completed,
\* get_command_diff returns, for every command in the session's summaries of
\* a host, changed or not, the masked pre and post text of the command's
\* CommandDiff; and it returns None only for a host or a command that is not
\* in the summaries
C26_CommandDiffHasTexts ==
    \A id \in Analyzed :
        \A h \in 1..Len(heap[id].commands) :
            /\ \A c \in 1..Len(heap[id].commands[h].commands) :
                  /\ get_command_diff(heap[id], heap[id].commands[h].hostname,
                                      heap[id].commands[h].commands[c].command).some
                  /\ CommandDiffOf(heap[id], heap[id].commands[h].hostname,
                                   heap[id].commands[h].commands[c].command) # <<>>
                  /\ get_command_diff(heap[id], heap[id].commands[h].hostname,
                                      heap[id].commands[h].commands[c].command).pre_output
                        = CommandDiffOf(heap[id], heap[id].commands[h].hostname,
                                heap[id].commands[h].commands[c].command)[1].pre_output
                  /\ get_command_diff(heap[id], heap[id].commands[h].hostname,
                                      heap[id].commands[h].commands[c].command).post_output
                        = CommandDiffOf(heap[id], heap[id].commands[h].hostname,
                                heap[id].commands[h].commands[c].command)[1].post_output
            /\ \A command \in {CmdVer, CmdBgp, CmdIpInt} :
                  ~get_command_diff(heap[id], heap[id].commands[h].hostname, command).some
                     => \A c \in 1..Len(heap[id].commands[h].commands) :
                           heap[id].commands[h].commands[c].command # command

(***************************************************************************)
(* The session manager under threads (SessionManager, lines 150-229).      *)
(* Every method body is a `with self._lock` block; the steps inside it are *)
(* separate steps of the thread that runs it.  run.lock is the thread that *)
(* holds the lock (0: none); run.threads are the threads' positions and    *)
(* locals; seen is the index as it was when the thread took the lock.      *)
(***************************************************************************)
\* threads calling the manager
MaxThreads == 2

Threads == 1..MaxThreads

IdleThread == [pc |-> "idle", op |-> "none", sid |-> 0, change |-> "None",
               seen |-> <<>>, at |-> 0, result |-> 0]

\* variant: a lock that any thread can take at any time
LockIgnored(lock) == TRUE

\* threading.Lock.acquire, as 'with self._lock' calls it: it returns when no
\* thread holds the lock
LockFree(lock) == lock = 0

\* a manager with no session, or with MAX_SESSIONS sessions created at time 0
InitLock ==
    /\ settings = [enabled |-> FALSE, rules |-> <<>>]
    /\ sessions \in {<<>>, [i \in 1..MAX_SESSIONS |-> i]}
    /\ heap = [i \in 1..Len(sessions) |-> AnalysisSession(i, "CHG1", 0)]
    /\ now = 0
    /\ next_id = Len(sessions) + 1
    /\ run = [lock |-> 0, threads |-> [t \in Threads |-> IdleThread], created |-> 0]
    /\ ret = NoRet
    /\ recency = <<>>

\* a thread calls a method.  create_session builds the session, with its id
\* and its creation time, before it asks for the lock (lines 156-161)
Call(t, op, sid, change) ==
    /\ run.threads[t].pc = "idle"
    /\ op = "create_session" => run.created < MaxAnalyses
    /\ run' = [run EXCEPT !.threads[t] = [IdleThread EXCEPT !.pc = "lock", !.op = op,
                                !.sid = IF op = "create_session" THEN next_id ELSE sid,
                                !.change = change],
                          !.created = IF op = "create_session" THEN @ + 1 ELSE @]
    /\ heap' = IF op = "create_session"
               THEN (next_id :> AnalysisSession(next_id, change, now)) @@ heap ELSE heap
    /\ next_id' = IF op = "create_session" THEN next_id + 1 ELSE next_id
    /\ UNCHANGED <<settings, sessions, now, ret, recency>>

\* `with self._lock:` (lines 163, 172, 181, 190, 195, 220): the thread waits
\* for the lock and takes it
Acquire(t) ==
    /\ run.threads[t].pc = "lock"
    /\ LockFree(run.lock)
    /\ run' = [run EXCEPT !.lock = t,
                          !.threads[t].seen = sessions,
                          !.threads[t].pc =
                              CASE run.threads[t].op = "create_session" -> "expire"
                                [] run.threads[t].op = "get_session" -> "get"
                                [] run.threads[t].op = "get_session_by_change" -> "scan"
                                [] run.threads[t].op \in {"delete_session", "remove_session"}
                                      -> "del"
                                [] run.threads[t].op = "list_sessions" -> "list"]
    /\ UNCHANGED <<settings, sessions, heap, now, next_id, ret, recency>>

\* _cleanup_old_sessions, lines 202-212: the expired sessions are deleted
CleanupExpired(t) ==
    /\ run.threads[t].pc = "expire"
    /\ sessions' = RemoveExpired(sessions, heap, now)
    /\ run' = [run EXCEPT !.threads[t].pc = "excess", !.threads[t].at = now]
    /\ UNCHANGED <<settings, heap, now, next_id, ret, recency>>

\* _cleanup_old_sessions, lines 214-216: one turn of the while loop
CleanupExcess(t) ==
    /\ run.threads[t].pc = "excess"
    /\ IF Len(sessions) > MAX_SESSIONS
       THEN sessions' = Tail(sessions) /\ run' = run
       ELSE sessions' = sessions /\ run' = [run EXCEPT !.threads[t].pc = "insert"]
    /\ UNCHANGED <<settings, heap, now, next_id, ret, recency>>

\* create_session, line 166: self._sessions[session_id] = session
Insert(t) ==
    /\ run.threads[t].pc = "insert"
    /\ sessions' = Append(sessions, run.threads[t].sid)
    /\ run' = [run EXCEPT !.threads[t].pc = "unlock",
                          !.threads[t].result = run.threads[t].sid]
    /\ UNCHANGED <<settings, heap, now, next_id, ret, recency>>

\* get_session, lines 173-174: self._sessions.get(session_id)
Lookup(t) ==
    /\ run.threads[t].pc = "get"
    /\ run' = [run EXCEPT !.threads[t].pc =
                              IF InStore(sessions, run.threads[t].sid) THEN "move" ELSE "unlock",
                          !.threads[t].result =
                              IF InStore(sessions, run.threads[t].sid)
                              THEN run.threads[t].sid ELSE 0]
    /\ UNCHANGED <<settings, sessions, heap, now, next_id, ret, recency>>

\* get_session, line 176: self._sessions.move_to_end(session_id)
MoveToEnd(t) ==
    /\ run.threads[t].pc = "move"
    /\ sessions' = move_to_end(sessions, run.threads[t].sid)
    /\ run' = [run EXCEPT !.threads[t].pc = "unlock"]
    /\ UNCHANGED <<settings, heap, now, next_id, ret, recency>>

\* get_session_by_change, lines 182-184: the scan from the newest entry
ScanByChange(t) ==
    /\ run.threads[t].pc = "scan"
    /\ run' = [run EXCEPT !.threads[t].pc = "unlock",
                          !.threads[t].result =
                              get_session_by_change(sessions, heap, run.threads[t].change)]
    /\ UNCHANGED <<settings, sessions, heap, now, next_id, ret, recency>>

\* delete_session, line 191, and remove_session, lines 196-199
Delete(t) ==
    /\ run.threads[t].pc = "del"
    /\ sessions' = Remove(sessions, run.threads[t].sid)
    /\ run' = [run EXCEPT !.threads[t].pc = "unlock",
                          !.threads[t].result =
                              IF /\ run.threads[t].op = "remove_session"
                                 /\ InStore(sessions, run.threads[t].sid)
                              THEN 1 ELSE 0]
    /\ UNCHANGED <<settings, heap, now, next_id, ret, recency>>

\* list_sessions, lines 221-229
List(t) ==
    /\ run.threads[t].pc = "list"
    /\ run' = [run EXCEPT !.threads[t].pc = "unlock",
                          !.threads[t].result = Len(list_sessions(sessions, heap))]
    /\ UNCHANGED <<settings, sessions, heap, now, next_id, ret, recency>>

\* the end of the with block: the lock is released and the method returns
Release(t) ==
    /\ run.threads[t].pc = "unlock"
    /\ run' = [run EXCEPT !.lock = 0, !.threads[t] = IdleThread]
    /\ ret' = Response(run.threads[t].op, run.threads[t].sid, run.threads[t].change,
                       run.threads[t].result, 200)
    /\ UNCHANGED <<settings, sessions, heap, now, next_id, recency>>

NextLock ==
    \/ \E t \in Threads : Call(t, "create_session", 0, "CHG2")
    \/ \E t \in Threads, id \in {1, MAX_SESSIONS + 1},
          op \in {"get_session", "delete_session", "remove_session"} : Call(t, op, id, "None")
    \/ \E t \in Threads, c \in {"CHG1", "CHG2"} : Call(t, "get_session_by_change", 0, c)
    \/ \E t \in Threads : Call(t, "list_sessions", 0, "None")
    \/ \E t \in Threads : Acquire(t)
    \/ \E t \in Threads : CleanupExpired(t)
    \/ \E t \in Threads : CleanupExcess(t)
    \/ \E t \in Threads : Insert(t)
    \/ \E t \in Threads : Lookup(t)
    \/ \E t \in Threads : MoveToEnd(t)
    \/ \E t \in Threads : ScanByChange(t)
    \/ \E t \in Threads : Delete(t)
    \/ \E t \in Threads : List(t)
    \/ \E t \in Threads : Release(t)
    \/ \E d \in TickSteps : Tick(d)

SpecLock == InitLock /\ [][NextLock]_vars

\* the positions of a thread inside a with block
InBlock == {"expire", "excess", "insert", "get", "move", "scan", "del", "list", "unlock"}

\* the suffixes of a store
Suffixes(store) == {SubSeq(store, k, Len(store)) : k \in 1..(Len(store) + 1)}

\* the index as a thread inside a with block must find it: what the steps the
\* thread has taken make of the index it saw when it took the lock
AsLeftBy(th) ==
    CASE th.pc \in {"expire", "get", "move", "scan", "del", "list"} -> {th.seen}
      [] th.pc = "excess" ->
            {s \in Suffixes(RemoveExpired(th.seen, heap, th.at)) :
                Len(s) >= Len(cleanup_old_sessions(th.seen, heap, th.at))}
      [] th.pc = "insert" -> {cleanup_old_sessions(th.seen, heap, th.at)}
      [] th.pc = "unlock" ->
            CASE th.op = "create_session" -> {create_session(th.seen, heap, th.at, th.sid)}
              [] th.op = "get_session" -> {get_session(th.seen, th.sid)}
              [] th.op \in {"delete_session", "remove_session"}
                    -> {remove_session(th.seen, th.sid)}
              [] OTHER -> {th.seen}

\* C27: every step that reads or changes the session index is taken by the
\* thread that holds the manager's lock, so no two threads are inside a with
\* block together, no other thread changes the index while a method works on
\* it, and each method leaves the index as the method run alone on the index
\* it found would: the operations are linearizable
C27_IndexUnderLock ==
    /\ \A t \in Threads : run.threads[t].pc \in InBlock => run.lock = t
    /\ \A t \in Threads :
          run.threads[t].pc \in InBlock => sessions \in AsLeftBy(run.threads[t])
    /\ \A t \in Threads :
          (run.threads[t].pc = "unlock" /\ run.threads[t].op = "get_session_by_change")
             => run.threads[t].result
                   = get_session_by_change(run.threads[t].seen, heap, run.threads[t].change)

\* a create_session has evicted the oldest session and is about to insert its
\* own while the other thread waits for the lock to look a session up
C27_Witness ==
    /\ run.threads[1].pc = "insert"
    /\ run.threads[1].seen # <<>>
    /\ Len(run.threads[1].seen) = MAX_SESSIONS + 1
    /\ Len(sessions) = MAX_SESSIONS
    /\ run.threads[2].pc = "lock"
    /\ run.threads[2].op = "get_session"

(***************************************************************************)
(* The line table of the device page (core/report_generator.py): the       *)
(* unified diff of the two masked texts, hunk headers and three lines of   *)
(* context included, and the rows made of it.  A row is its class, the     *)
(* text of its two number cells and its line text.                         *)
(***************************************************************************)
\* lines of a text handed to the line table
MaxTableLines == 5

\* str.splitlines(): the lines without their terminators
splitlines(text) ==
    [i \in 1..Len(SplitLines(text)) |-> SelectSeq(SplitLines(text)[i], LAMBDA c : c # "\n")]

\* str(n) for n >= 0
RECURSIVE Decimal(_)
Decimal(n) ==
    LET digit == <<"0", "1", "2", "3", "4", "5", "6", "7", "8", "9">>[(n % 10) + 1]
    IN  IF n < 10 THEN <<digit>> ELSE Append(Decimal(n \div 10), digit)

\* abs(int(s)) for a string of digits behind an optional sign
RECURSIVE AbsInt(_)
AbsInt(s) ==
    IF s = <<>> THEN 0
    ELSE IF Head(s) \in {"-", "+"} THEN AbsInt(Tail(s))
    ELSE 10 * AbsInt(SubSeq(s, 1, Len(s) - 1))
         + (CHOOSE d \in 0..9 : Decimal(d) = <<s[Len(s)]>>)

\* html.escape(s)
RECURSIVE html_escape(_)
html_escape(s) ==
    IF s = <<>> THEN <<>>
    ELSE (CASE Head(s) = "&" -> <<"&", "a", "m", "p", ";">>
            [] Head(s) = "<" -> <<"&", "l", "t", ";">>
            [] Head(s) = ">" -> <<"&", "g", "t", ";">>
            [] Head(s) = "\"" -> <<"&", "q", "u", "o", "t", ";">>
            [] Head(s) = "'" -> <<"&", "#", "x", "2", "7", ";">>
            [] OTHER -> <<Head(s)>>) \o html_escape(Tail(s))

\* the matching blocks in the order of their position in a
RECURSIVE BlocksInOrder(_)
BlocksInOrder(blocks) ==
    IF blocks = {} THEN <<>>
    ELSE LET m == CHOOSE x \in blocks : \A y \in blocks : x[1] <= y[1]
         IN  <<m>> \o BlocksInOrder(blocks \ {m})

\* SequenceMatcher.get_opcodes, line by line: from positions i of a and j of
\* b, the lines of a before the next block as deletions, then the lines of b
\* before it as insertions, then the lines of the block as equal lines
RECURSIVE EditScript(_, _, _, _, _)
EditScript(a, b, blocks, i, j) ==
    LET ai == IF blocks = <<>> THEN Len(a) ELSE Head(blocks)[1]
        bj == IF blocks = <<>> THEN Len(b) ELSE Head(blocks)[2]
        size == IF blocks = <<>> THEN 0 ELSE Head(blocks)[3]
    IN  [k \in 1..(ai - i) |-> [tag |-> "-", line |-> a[i + k]]]
        \o [k \in 1..(bj - j) |-> [tag |-> "+", line |-> b[j + k]]]
        \o [k \in 1..size |-> [tag |-> " ", line |-> a[ai + k]]]
        \o (IF blocks = <<>> THEN <<>>
            ELSE EditScript(a, b, Tail(blocks), ai + size, bj + size))

\* SequenceMatcher.get_grouped_opcodes(n=3): the positions of the edit script
\* that a hunk shows, the changed lines and the equal lines at most three
\* lines away from one
InHunk(script) ==
    {k \in 1..Len(script) :
        \E m \in 1..Len(script) :
            /\ script[m].tag # " "
            /\ m - k <= 3
            /\ k - m <= 3}

\* _format_range_unified(start, stop)
format_range_unified(start, stop) ==
    IF stop - start = 1 THEN Decimal(start + 1)
    ELSE Decimal(IF stop = start THEN start ELSE start + 1) \o <<",">> \o Decimal(stop - start)

\* the lines of the edit script before position k that are lines of a (tags
\* " " and "-") or of b (tags " " and "+")
LinesBefore(script, k, tag) ==
    Cardinality({m \in 1..(k - 1) : script[m].tag \in {" ", tag}})

\* difflib.unified_diff(a, b, lineterm='') from position k of the edit script
\* on: a hunk header before the first line of each hunk, then the line
\* behind its tag
RECURSIVE UnifiedFrom(_, _)
UnifiedFrom(script, k) ==
    IF k > Len(script) THEN <<>>
    ELSE IF k \notin InHunk(script) THEN UnifiedFrom(script, k + 1)
    ELSE LET last == CHOOSE e \in k..Len(script) :
                        /\ (k..e) \subseteq InHunk(script)
                        /\ (e + 1) \notin InHunk(script)
             header == <<"@", "@", " ", "-">>
                       \o format_range_unified(LinesBefore(script, k, "-"),
                                               LinesBefore(script, last + 1, "-"))
                       \o <<" ", "+">>
                       \o format_range_unified(LinesBefore(script, k, "+"),
                                               LinesBefore(script, last + 1, "+"))
                       \o <<" ", "@", "@">>
         IN  (IF k = 1 \/ (k - 1) \notin InHunk(script) THEN <<header>> ELSE <<>>)
             \o <<<<script[k].tag>> \o script[k].line>>
             \o UnifiedFrom(script, k + 1)

\* difflib.unified_diff(a, b, lineterm='') with its hunks: nothing when no
\* line changed
unified_diff_hunks(a, b) ==
    LET script == EditScript(a, b,
                      BlocksInOrder(get_matching_blocks(a, b, 0, Len(a), 0, Len(b))), 0, 0)
    IN  IF InHunk(script) = {} THEN <<>>
        ELSE <<<<"-", "-", "-", " ">>, <<"+", "+", "+", " ">>>> \o UnifiedFrom(script, 1)

\* pre_info.split(',')[0]
BeforeComma(s) ==
    IF \E i \in 1..Len(s) : s[i] = ","
    THEN SubSeq(s, 1, (CHOOSE i \in 1..Len(s) : s[i] = "," /\ \A j \in 1..(i - 1) : s[j] # ",") - 1)
    ELSE s

TableRow(class, pre_num, post_num, text) ==
    [class |-> class, pre |-> pre_num, post |-> post_num, text |-> text]

\* the loop of _generate_command_diff_html, lines 750-771
RECURSIVE DiffRows(_, _, _)
DiffRows(diff, pre_line_num, post_line_num) ==
    IF diff = <<>> THEN <<>>
    ELSE LET line == Head(diff)
         IN  IF StartsWith(line, <<"-", "-", "-">>) \/ StartsWith(line, <<"+", "+", "+">>)
             THEN DiffRows(Tail(diff), pre_line_num, post_line_num)
             ELSE IF StartsWith(line, <<"@", "@">>)
             THEN LET parts == Fields(line, <<>>, 0)
                  IN  <<TableRow("line-ctx", <<>>, <<>>, html_escape(line))>>
                      \o (IF Len(parts) >= 3
                          THEN DiffRows(Tail(diff), AbsInt(BeforeComma(parts[2].text)),
                                        AbsInt(BeforeComma(parts[3].text)))
                          ELSE DiffRows(Tail(diff), pre_line_num, post_line_num))
             ELSE IF StartsWith(line, <<"-">>)
             THEN <<TableRow("line-del", Decimal(pre_line_num), <<>>, html_escape(Tail(line)))>>
                  \o DiffRows(Tail(diff), pre_line_num + 1, post_line_num)
             ELSE IF StartsWith(line, <<"+">>)
             THEN <<TableRow("line-add", <<>>, Decimal(post_line_num), html_escape(Tail(line)))>>
                  \o DiffRows(Tail(diff), pre_line_num, post_line_num + 1)
             ELSE <<TableRow("line-ctx", Decimal(pre_line_num), Decimal(post_line_num),
                             html_escape(IF StartsWith(line, <<" ">>) THEN Tail(line) ELSE line))>>
                  \o DiffRows(Tail(diff), pre_line_num + 1, post_line_num + 1)

\* OptimizedReportGenerator._generate_command_diff_html: the rows of the table
_generate_command_diff_html(pre, post) ==
    DiffRows(unified_diff_hunks(splitlines(pre), splitlines(post)), 0, 0)

\* _generate_device_page, lines 696-710: the entry of one command; the table
\* is made for a command with changes only
CommandEntry(cmd) ==
    [command       |-> cmd.command,
     has_changes   |-> cmd.has_changes,
     added_lines   |-> cmd.added_lines,
     removed_lines |-> cmd.removed_lines,
     rendered      |-> cmd.has_changes,
     diff_html     |-> IF cmd.has_changes
                       THEN _generate_command_diff_html(cmd.pre_output, cmd.post_output)
                       ELSE <<>>]

\* outputs of a command: up to MaxTableLines lines, plain lines and rule lines
TableTexts ==
    {Concat(ls) : ls \in UNION {[1..n -> {<<"a", "\n">>, <<"-", "-", "\n">>}] :
                                   n \in 0..MaxTableLines}}

InitTable ==
    /\ settings = [enabled |-> FALSE, rules |-> <<>>]
    /\ sessions = <<>>
    /\ heap = <<>>
    /\ now = 0
    /\ next_id = 1
    /\ run \in {[pc |-> "call", fn |-> "generate_command_diff", pre |-> x, post |-> y] :
                   x \in TableTexts, y \in TableTexts}
    /\ ret = NoRet
    /\ recency = <<>>

\* generate_command_diff for one command of a device: the CommandDiff is kept
\* in heap
DiffCommand ==
    /\ run.pc = "call"
    /\ heap' = <<generate_command_diff(DataMasker(settings), MASKING_PROFILES.standard,
                                       CmdVer, run.pre, run.post)>>
    /\ run' = [run EXCEPT !.pc = "diffed"]
    /\ UNCHANGED <<settings, sessions, now, next_id, ret, recency>>

\* _generate_device_page for the device: the entry of the command
RenderCommand ==
    /\ run.pc = "diffed"
    /\ ret' = CommandEntry(heap[1])
    /\ run' = [run EXCEPT !.pc = "done", !.fn = "_generate_device_page"]
    /\ UNCHANGED <<settings, sessions, heap, now, next_id, recency>>

NextTable == DiffCommand \/ RenderCommand

SpecTable == InitTable /\ [][NextTable]_vars

\* the rows of a table that show a line: all but the hunk header rows
LineRows(rows) == SelectSeq(rows, LAMBDA r : ~(r.pre = <<>> /\ r.post = <<>>))

\* the line texts of the rows of the given classes
RowTexts(rows, classes) ==
    LET shown == SelectSeq(LineRows(rows), LAMBDA r : r.class \in classes)
    IN  [i \in 1..Len(shown) |-> shown[i].text]

Escaped(lines) == [i \in 1..Len(lines) |-> html_escape(lines[i])]

\* C28: the rendering of a command with changes shows every line of the masked pre text
\* (as a context or removed row) and every line of the masked post text (as
\* a context or added row), in order and with nothing left out, in the
\* CommandDiff's diff_html and in the line table of the device page
C28_EveryLineShown ==
    (Returned("_generate_device_page") /\ ret.rendered) =>
        /\ heap[1].diff_html = <<DiffLines(heap[1].pre_output), DiffLines(heap[1].post_output)>>
        /\ RowTexts(ret.diff_html, {"line-ctx", "line-del"})
              = Escaped(splitlines(heap[1].pre_output))
        /\ RowTexts(ret.diff_html, {"line-ctx", "line-add"})
              = Escaped(splitlines(heap[1].post_output))

\* the text of the number cells of the rows that show a number on the side
NumbersShown(rows, side) ==
    LET shown == SelectSeq(rows, LAMBDA r : r[side] # <<>>)
    IN  [i \in 1..Len(shown) |-> shown[i]]

\* C29: in the line table a removed row shows only a pre number, an added
\* row only a post number and a context row both; the number a row shows is
\* the 1-based position of its line in the pre (post) text; and from one row
\* with a number to the next of the same hunk the number goes up by one
C29_NumbersArePositions ==
    (Returned("_generate_device_page") /\ ret.rendered) =>
        LET rows == LineRows(ret.diff_html)
            pre_lines == Escaped(splitlines(heap[1].pre_output))
            post_lines == Escaped(splitlines(heap[1].post_output))
        IN  /\ \A k \in 1..Len(rows) :
                  /\ rows[k].class = "line-del" => rows[k].pre # <<>> /\ rows[k].post = <<>>
                  /\ rows[k].class = "line-add" => rows[k].pre = <<>> /\ rows[k].post # <<>>
                  /\ rows[k].class = "line-ctx" => rows[k].pre # <<>> /\ rows[k].post # <<>>
                  /\ rows[k].pre # <<>> =>
                        /\ AbsInt(rows[k].pre) \in 1..Len(pre_lines)
                        /\ pre_lines[AbsInt(rows[k].pre)] = rows[k].text
                  /\ rows[k].post # <<>> =>
                        /\ AbsInt(rows[k].post) \in 1..Len(post_lines)
                        /\ post_lines[AbsInt(rows[k].post)] = rows[k].text
            /\ \A k \in 2..Len(NumbersShown(rows, "pre")) :
                  AbsInt(NumbersShown(rows, "pre")[k].pre)
                     > AbsInt(NumbersShown(rows, "pre")[k - 1].pre)
            /\ \A k \in 2..Len(NumbersShown(rows, "post")) :
                  AbsInt(NumbersShown(rows, "post")[k].post)
                     > AbsInt(NumbersShown(rows, "post")[k - 1].post)

\* the ids stored in an index
StoredIds(store) == {store[i] : i \in 1..Len(store)}

\* the thread that holds the lock runs one of the given methods
HolderRuns(ops) == run.lock # 0 /\ run.threads[run.lock].op \in ops

====
